---- MODULE Spec2Model ----
(***************************************************************************)
(* A model of the gacha probability engine of xtding233/gacha-backend:     *)
(* Draw, PitySystem, SoftPitySystem, BannerSystem and the Monte Carlo     *)
(* simulator that builds and drives them.                                  *)
(*                                                                         *)
(* float64 values are modelled as exact rationals n/d in lowest terms,     *)
(* together with the IEEE specials NaN, +Inf and -Inf and two values just  *)
(* below 1: the clamp 0.999999999999 of effectiveProb ("cap") and the      *)
(* largest value a RandomSource can return, 1 - 2^-53 ("umax").            *)
(***************************************************************************)
EXTENDS Integers, Sequences, FiniteSets, TLC

VARIABLES
    sut,       \* which object the run exercises: "Draw", "PitySystem", ...
    ps,        \* the PitySystem: [Pity, Count]
    sp,        \* the SoftPitySystem: [Pity, Count, Soft]
    bn,        \* the BannerSystem
    rngCalls,  \* number of Float64() calls made on the RandomSource so far
    rngCalls2, \* the same count for the second copy of the source (side by side)
    out,       \* the last call: its arguments, what it returned, the state before
    missRun,   \* consecutive misses returned since the last hit (history)
    offRun,    \* consecutive off-banner hits since the last UP (history)
    sim,       \* the RunMonteCarlo call: its arguments, its position, its result
    prev,      \* the caller's earlier RunMonteCarlo call and what its source returned
    srv,       \* the HTTP server: its mutex and the requests being handled
    ld         \* the config Loader: the files, its cache and the calls under way

vars == <<sut, ps, sp, bn, rngCalls, rngCalls2, out, missRun, offRun, sim, prev,
          srv, ld>>

----------------------------------------------------------------------------
(* Bounds of the model *)

\* probabilities and random values are drawn from the grid i/ProbDen
ProbDen == 2
\* largest pity threshold an engine is built with
MaxPity == 3
\* Float64() calls after which no further call is started
MaxCalls == 4
\* plain Draw is tried on the grid i/DrawDen
DrawDen == 4
\* longest offProbs list passed to NewBannerSystem
MaxOffLen == 1
\* largest maxOff passed to NewBannerSystem
MaxMaxOff == 2
\* largest pity threshold of the SoftPitySystem a BannerSystem wraps
MaxBannerPity == 2

\* the ramp of effectiveProb is tried on the grid i/RampDen
RampDen == 4

\* largest pity threshold of a simulated engine
MaxSimPity == 2
\* largest number of trials of a simulation run
MaxTrials == 2
\* largest number of draws of a fixed budget
MaxBudget == 2

\* goroutines of the HTTP server that handle a request at the same time
MaxReqs == 2
\* longest slice make() allocates: a longer one panics (the runtime's limit on
\* the size of an allocation, scaled down)
MaxAlloc == 2

\* largest sample handed to calcStats
MaxSample == 2
\* most samples handed to calcStats
MaxSamples == 4

\* LoadMerged calls made on the Loader
MaxLoads == 2
\* changes made to the configuration files
MaxEdits == 1

\* most draws asked of TokensForDraws
MaxDraws == 21

\* most base tokens in a pack of the store
MaxPackTokens == 2
\* highest price of a pack, in cents
MaxPrice == 2
\* largest token target and largest budget asked of the optimizer
MaxAmount == 4

\* smallest pity threshold an engine is built with (pity <= 0 disables pity)
MinPity == 0 - 1

----------------------------------------------------------------------------
(* float64 *)

Abs(x) == IF x < 0 THEN 0 - x ELSE x

RECURSIVE GCD(_, _)
GCD(a, b) == IF b = 0 THEN a ELSE GCD(b, a % b)

\* the rational n/d (d > 0) in lowest terms
R(n, d) == LET Reduce(g) == [k |-> "fin", n |-> n \div g, d |-> d \div g]
           IN  Reduce(GCD(Abs(n), d))

NaN  == [k |-> "nan",  n |-> 0, d |-> 1]
PInf == [k |-> "pinf", n |-> 0, d |-> 1]
NInf == [k |-> "ninf", n |-> 0, d |-> 1]
\* 0.999999999999, the clamp of effectiveProb, is 1 - 1/CapRoot^2
ProbCap == [k |-> "cap", n |-> 0, d |-> 1]
\* 1 - 2^-53, the largest float64 below 1
UMax == [k |-> "umax", n |-> 0, d |-> 1]
\* math.SmallestNonzeroFloat64, 2^-1074: above 0 and below every other
\* positive value of the model
SmallestNonzeroFloat64 == [k |-> "tiny", n |-> 0, d |-> 1]

Zero == [k |-> "fin", n |-> 0, d |-> 1]
One  == [k |-> "fin", n |-> 1, d |-> 1]
Half == [k |-> "fin", n |-> 1, d |-> 2]
Two  == [k |-> "fin", n |-> 2, d |-> 1]
Four == [k |-> "fin", n |-> 4, d |-> 1]

\* 0.999999999999 is 1 - 10^-12 and CapRoot is 10^6
CapRoot == 1000000

\* int(^uint(0) >> 1), the largest int, in the integers of the model
Inf == 2147483647

\* a < b on float64 (false when either side is NaN)
Lt(a, b) ==
    CASE a.k = "nan" \/ b.k = "nan" -> FALSE
      [] a.k = "pinf" -> FALSE
      [] b.k = "ninf" -> FALSE
      [] a.k = "ninf" -> TRUE
      [] b.k = "pinf" -> TRUE
      [] a.k = "fin" /\ b.k = "fin" -> a.n * b.d < b.n * a.d
      [] a.k = "tiny" /\ b.k = "fin" -> b.n > 0
      [] a.k = "fin" /\ b.k = "tiny" -> a.n <= 0
      [] a.k = "tiny" /\ b.k \in {"cap", "umax"} -> TRUE
         \* n/d < 1 - 10^-12  iff  d - n > floor(d / 10^12)
      [] a.k = "fin" /\ b.k = "cap" ->
             a.d - a.n > (a.d \div CapRoot) \div CapRoot
         \* every n/d < 1 with d < 2^53 is below 1 - 2^-53
      [] a.k = "fin" /\ b.k = "umax" -> a.n < a.d
         \* 1 - 10^-12 < n/d  iff  d - n <= floor((d-1) / 10^12)
      [] a.k = "cap" /\ b.k = "fin" ->
             b.d - b.n <= ((b.d - 1) \div CapRoot) \div CapRoot
      [] a.k = "umax" /\ b.k = "fin" -> b.n >= b.d
      [] a.k = "cap" /\ b.k = "umax" -> TRUE
      [] OTHER -> FALSE

Gt(a, b) == Lt(b, a)
\* a <= b on float64 (false when either side is NaN)
Le(a, b) == a.k # "nan" /\ b.k # "nan" /\ ~Lt(b, a)
Ge(a, b) == Le(b, a)

\* a + b, a - b, a * b on float64, for finite rationals and NaN, +Inf, -Inf
Neg(a) == CASE a.k = "fin" -> [a EXCEPT !.n = 0 - a.n]
            [] a.k = "pinf" -> NInf
            [] a.k = "ninf" -> PInf
            [] OTHER -> NaN

Add(a, b) ==
    CASE a.k = "nan" \/ b.k = "nan" -> NaN
      [] a.k = "fin" /\ b.k = "fin" -> R(a.n * b.d + b.n * a.d, a.d * b.d)
      [] a.k = "fin" -> b
      [] b.k = "fin" -> a
      [] a.k = b.k -> a
      [] OTHER -> NaN

Sub(a, b) == Add(a, Neg(b))

\* the sign of the non-finite product: x is +Inf or -Inf, y is not NaN
InfTimes(x, y) ==
    CASE y.k = "fin" /\ y.n = 0 -> NaN
      [] (x.k = "pinf") = (y.k = "pinf" \/ (y.k = "fin" /\ y.n > 0)) -> PInf
      [] OTHER -> NInf

Mul(a, b) ==
    CASE a.k = "nan" \/ b.k = "nan" -> NaN
      [] a.k = "fin" /\ b.k = "fin" -> R(a.n * b.n, a.d * b.d)
      [] a.k = "fin" -> InfTimes(b, a)
      [] OTHER -> InfTimes(a, b)

----------------------------------------------------------------------------
(* Inputs *)

\* base probabilities callers pass: the grid from -1/ProbDen to 1 + 1/ProbDen
\* and the non-finite values
PBases == {R(i, ProbDen) : i \in (0 - 1)..(ProbDen + 1)} \cup {NaN, PInf, NInf}

\* values the RandomSource can return, all in [0, 1)
URands == {R(i, ProbDen) : i \in 0..(ProbDen - 1)} \cup {UMax}

\* no value was asked of the source
NoU == [k |-> "none", n |-> 0, d |-> 1]

----------------------------------------------------------------------------
(* Draw *)

NoErr == "nil"
ErrInvalidProb == "invalid probability p; must be 0..1"
ErrSoftPityConfig == "invalid soft pity config"

\* a validateProb that lets a probability above 1 through
validateProbLax(p) ==
    IF p.k \in {"nan", "pinf", "ninf"} THEN ErrInvalidProb
    ELSE IF Lt(p, Zero) THEN ErrInvalidProb
    ELSE NoErr

validateProb(p) ==
    IF p.k \in {"nan", "pinf", "ninf"} THEN ErrInvalidProb
    ELSE IF Lt(p, Zero) \/ Gt(p, One) THEN ErrInvalidProb
    ELSE NoErr

\* a Draw that asks the source at p = 1 although the answer is fixed
DrawAsksAtOne(p, u) ==
    IF validateProb(p) # NoErr
    THEN [hit |-> FALSE, err |-> validateProb(p), used |-> 0]
    ELSE IF Le(p, Zero) THEN [hit |-> FALSE, err |-> NoErr, used |-> 0]
    ELSE IF Ge(p, One) THEN [hit |-> TRUE, err |-> NoErr, used |-> 1]
    ELSE [hit |-> Lt(u, p), err |-> NoErr, used |-> 1]

\* a Draw that asks the source before it validates p
DrawAsksBeforeValidating(p, u) ==
    IF validateProb(p) # NoErr
    THEN [hit |-> FALSE, err |-> validateProb(p), used |-> 1]
    ELSE IF Le(p, Zero) THEN [hit |-> FALSE, err |-> NoErr, used |-> 0]
    ELSE IF Ge(p, One) THEN [hit |-> TRUE, err |-> NoErr, used |-> 0]
    ELSE [hit |-> Lt(u, p), err |-> NoErr, used |-> 1]

\* a Draw that hits on u <= p
DrawLe(p, u) ==
    IF validateProb(p) # NoErr
    THEN [hit |-> FALSE, err |-> validateProb(p), used |-> 0]
    ELSE IF Le(p, Zero) THEN [hit |-> FALSE, err |-> NoErr, used |-> 0]
    ELSE IF Ge(p, One) THEN [hit |-> TRUE, err |-> NoErr, used |-> 0]
    ELSE [hit |-> Le(u, p), err |-> NoErr, used |-> 1]

\* Draw(p, rng): u is the value rng.Float64() returns if it is asked; used is
\* the number of times it was asked
Draw(p, u) ==
    IF validateProb(p) # NoErr
    THEN [hit |-> FALSE, err |-> validateProb(p), used |-> 0]
    ELSE IF Le(p, Zero) THEN [hit |-> FALSE, err |-> NoErr, used |-> 0]
    ELSE IF Ge(p, One) THEN [hit |-> TRUE, err |-> NoErr, used |-> 0]
    ELSE [hit |-> Lt(u, p), err |-> NoErr, used |-> 1]

----------------------------------------------------------------------------
(* PitySystem *)

NewPitySystem(pity) == [Pity |-> pity, Count |-> 0]

\* a PitySystem.Draw whose pity check comes one draw late
PitySystemDrawLate(s, p, u) ==
    LET Counted(r) ==
            IF r.err # NoErr
            THEN [s |-> s, hit |-> FALSE, err |-> r.err, used |-> r.used]
            ELSE [s |-> [s EXCEPT !.Count = IF r.hit THEN 0 ELSE @ + 1],
                  hit |-> r.hit, err |-> NoErr, used |-> r.used]
    IN  IF s.Pity <= 0
        THEN [s |-> s] @@ Draw(p, u)
        ELSE IF s.Count >= s.Pity
        THEN [s |-> [s EXCEPT !.Count = 0], hit |-> TRUE, err |-> NoErr,
              used |-> 0]
        ELSE Counted(Draw(p, u))

\* a PitySystem.Draw that treats Pity = 0 as a threshold
PitySystemDrawNoFallback(s, p, u) ==
    LET Counted(r) ==
            IF r.err # NoErr
            THEN [s |-> s, hit |-> FALSE, err |-> r.err, used |-> r.used]
            ELSE [s |-> [s EXCEPT !.Count = IF r.hit THEN 0 ELSE @ + 1],
                  hit |-> r.hit, err |-> NoErr, used |-> r.used]
    IN  IF s.Pity < 0
        THEN [s |-> s] @@ Draw(p, u)
        ELSE IF s.Count + 1 >= s.Pity
        THEN [s |-> [s EXCEPT !.Count = 0], hit |-> TRUE, err |-> NoErr,
              used |-> 0]
        ELSE Counted(Draw(p, u))

\* PitySystem.Draw(p): the system after the call and what the call returns
PitySystemDraw(s, p, u) ==
    LET Counted(r) ==
            IF r.err # NoErr
            THEN [s |-> s, hit |-> FALSE, err |-> r.err, used |-> r.used]
            ELSE [s |-> [s EXCEPT !.Count = IF r.hit THEN 0 ELSE @ + 1],
                  hit |-> r.hit, err |-> NoErr, used |-> r.used]
    IN  IF s.Pity <= 0
        THEN [s |-> s] @@ Draw(p, u)
        ELSE IF s.Count + 1 >= s.Pity
        THEN [s |-> [s EXCEPT !.Count = 0], hit |-> TRUE, err |-> NoErr,
              used |-> 0]
        ELSE Counted(Draw(p, u))

----------------------------------------------------------------------------
(* SoftPitySystem *)

EaseLinear     == "linear"
EaseOutQuad    == "easeOutQuad"
EaseInOutCubic == "easeInOutCubic"

\* a nil *SoftPityConfig
NoSoft == [set |-> FALSE, Pity |-> 0, StartAt |-> 0, TargetProb |-> Zero,
           Easing |-> ""]

SoftPityConfig(pity, startAt, target, easing) ==
    [set |-> TRUE, Pity |-> pity, StartAt |-> startAt, TargetProb |-> target,
     Easing |-> easing]

\* SoftPityConfig.normalize: the error, and the config as the call leaves it
normalize(c) ==
    LET Rest(c1) ==
            IF c1.StartAt >= c1.Pity - 1
            THEN [err |-> ErrSoftPityConfig, c |-> c1]
            ELSE [err |-> NoErr,
                  c |-> IF c1.Easing = "" THEN [c1 EXCEPT !.Easing = EaseLinear]
                        ELSE c1]
    IN  IF c.Pity <= 1 THEN [err |-> ErrSoftPityConfig, c |-> c]
        ELSE IF Le(c.TargetProb, Zero) \/ Ge(c.TargetProb, One)
        THEN [err |-> ErrSoftPityConfig, c |-> c]
        ELSE Rest(IF c.StartAt < 0 THEN [c EXCEPT !.StartAt = 0] ELSE c)

\* what NewSoftPitySystem returns in place of a system when it fails
NilSoftPitySystem == [Pity |-> 0, Count |-> 0, Soft |-> NoSoft]

\* NewSoftPitySystem(pity, soft, rng)
NewSoftPitySystem(pity, soft) ==
    LET Built(r) ==
            IF r.err # NoErr
            THEN [err |-> r.err, s |-> NilSoftPitySystem]
            ELSE [err |-> NoErr, s |-> [Pity |-> pity, Count |-> 0, Soft |-> r.c]]
    IN  IF soft.set
        THEN Built(normalize([soft EXCEPT !.Pity = pity]))
        ELSE [err |-> NoErr, s |-> [Pity |-> pity, Count |-> 0, Soft |-> NoSoft]]

\* the easing switch of effectiveProb, for t in [0,1]
ease(easing, t) ==
    LET Sq(x) == Mul(x, x)
        Cube(x) == Mul(Mul(x, x), x)
    IN  CASE easing = EaseOutQuad -> Sub(One, Sq(Sub(One, t)))
          [] easing = EaseInOutCubic ->
                IF Lt(t, Half)
                THEN Mul(Four, Cube(t))
                ELSE Sub(One, Mul(Cube(Add(Mul(Neg(Two), t), Two)), Half))
          [] OTHER -> t

\* an effectiveProb that interpolates away from the target
effectiveProbAwayFromTarget(s, pBase) ==
    LET Clamp01(t) == IF Lt(t, Zero) THEN Zero ELSE IF Gt(t, One) THEN One ELSE t
        ClampP(p)  == IF Lt(p, Zero) THEN Zero
                      ELSE IF Gt(p, ProbCap) THEN ProbCap ELSE p
        Ramp(length) ==
            IF length <= 0 THEN pBase
            ELSE ClampP(Add(pBase,
                            Mul(Sub(pBase, s.Soft.TargetProb),
                                ease(s.Soft.Easing,
                                     Clamp01(R(s.Count - s.Soft.StartAt, length))))))
    IN  IF s.Count + 1 >= s.Pity THEN One
        ELSE IF ~s.Soft.set THEN pBase
        ELSE IF s.Count < s.Soft.StartAt THEN pBase
        ELSE Ramp((s.Pity - 1) - s.Soft.StartAt)

\* an effectiveProb that clamps to [0,1] instead of [0, 0.999999999999]
effectiveProbClampAtOne(s, pBase) ==
    LET Clamp01(t) == IF Lt(t, Zero) THEN Zero ELSE IF Gt(t, One) THEN One ELSE t
        ClampP(p)  == IF Lt(p, Zero) THEN Zero
                      ELSE IF Gt(p, One) THEN One ELSE p
        Ramp(length) ==
            IF length <= 0 THEN pBase
            ELSE ClampP(Add(pBase,
                            Mul(Sub(s.Soft.TargetProb, pBase),
                                ease(s.Soft.Easing,
                                     Clamp01(R(s.Count - s.Soft.StartAt, length))))))
    IN  IF s.Count + 1 >= s.Pity THEN One
        ELSE IF ~s.Soft.set THEN pBase
        ELSE IF s.Count < s.Soft.StartAt THEN pBase
        ELSE Ramp((s.Pity - 1) - s.Soft.StartAt)

\* SoftPitySystem.effectiveProb(pBase)
effectiveProb(s, pBase) ==
    LET Clamp01(t) == IF Lt(t, Zero) THEN Zero ELSE IF Gt(t, One) THEN One ELSE t
        ClampP(p)  == IF Lt(p, Zero) THEN Zero
                      ELSE IF Gt(p, ProbCap) THEN ProbCap ELSE p
        Ramp(length) ==
            IF length <= 0 THEN pBase
            ELSE ClampP(Add(pBase,
                            Mul(Sub(s.Soft.TargetProb, pBase),
                                ease(s.Soft.Easing,
                                     Clamp01(R(s.Count - s.Soft.StartAt, length))))))
    IN  IF s.Count + 1 >= s.Pity THEN One
        ELSE IF ~s.Soft.set THEN pBase
        ELSE IF s.Count < s.Soft.StartAt THEN pBase
        ELSE Ramp((s.Pity - 1) - s.Soft.StartAt)

\* SoftPitySystem.Draw(pBase): the system after the call and what it returns
SoftPitySystemDraw(s, pBase, u) ==
    LET Counted(r) ==
            IF r.err # NoErr
            THEN [s |-> s, hit |-> FALSE, err |-> r.err, used |-> r.used]
            ELSE [s |-> [s EXCEPT !.Count = IF r.hit THEN 0 ELSE @ + 1],
                  hit |-> r.hit, err |-> NoErr, used |-> r.used]
    IN  IF s.Count + 1 >= s.Pity
        THEN [s |-> [s EXCEPT !.Count = 0], hit |-> TRUE, err |-> NoErr,
              used |-> 0]
        ELSE Counted(Draw(effectiveProb(s, pBase), u))

----------------------------------------------------------------------------
(* The simulator's constructors *)

\* an optional (pointer) field of SimParams
Nil == [set |-> FALSE, v |-> 0]
Some(x) == [set |-> TRUE, v |-> x]

\* int(math.Ceil(a)) for a finite rational a
CeilInt(a) == 0 - ((0 - a.n) \div a.d)

\* the *SoftPityConfig newSoft builds from SimParams: nil without a target or
\* without a start
newSoftConfig(p) ==
    LET Clamp01(x) == IF Lt(x, Zero) THEN Zero ELSE IF Gt(x, One) THEN One ELSE x
        Capped(st) == IF st >= p.Pity THEN p.Pity - 1 ELSE st
    IN  IF p.TargetProb.set /\ (p.StartAt.set \/ p.StartPct.set)
        THEN SoftPityConfig(
                 p.Pity,
                 IF p.StartAt.set THEN p.StartAt.v
                 ELSE Capped(CeilInt(Mul(Clamp01(p.StartPct.v), R(p.Pity, 1)))),
                 p.TargetProb.v,
                 IF p.Easing = "" THEN EaseLinear ELSE p.Easing)
        ELSE NoSoft

\* a newSoft that does not clamp the cushion to Pity-1
newSoftRawCushion(p) ==
    LET Clamp(c) == c
        Seeded(r) ==
            IF r.err # NoErr THEN r
            ELSE [err |-> NoErr,
                  s |-> [r.s EXCEPT !.Count =
                            Clamp(IF p.Cushion < 0 THEN 0 ELSE p.Cushion)]]
    IN  Seeded(NewSoftPitySystem(p.Pity, newSoftConfig(p)))

\* newSoft(p): a fresh SoftPitySystem from SimParams, Count seeded from Cushion
newSoft(p) ==
    LET Clamp(c) == IF c >= p.Pity THEN p.Pity - 1 ELSE c
        Seeded(r) ==
            IF r.err # NoErr THEN r
            ELSE [err |-> NoErr,
                  s |-> [r.s EXCEPT !.Count =
                            Clamp(IF p.Cushion < 0 THEN 0 ELSE p.Cushion)]]
    IN  Seeded(NewSoftPitySystem(p.Pity, newSoftConfig(p)))

----------------------------------------------------------------------------
(* BannerSystem *)

\* a NewBannerSystem that keeps an entry of exactly 1
NewBannerSystemKeepsOne(soft, offProbs, maxOff) ==
    LET Clamped(probs) ==
            [i \in 1..Len(probs) |->
                IF ~(Gt(probs[i], Zero) /\ Le(probs[i], One)) THEN Half
                ELSE probs[i]]
        Built(clamped) ==
            [SoftPity |-> soft, OffProbs |-> clamped,
             MaxOff |-> IF maxOff <= 0 THEN Len(clamped) ELSE maxOff,
             GuaranteedNext |-> FALSE, OffStreak |-> 0]
    IN  Built(Clamped(IF Len(offProbs) = 0 THEN <<Half>> ELSE offProbs))

\* NewBannerSystem(soft, offProbs, maxOff)
NewBannerSystem(soft, offProbs, maxOff) ==
    LET Clamped(probs) ==
            [i \in 1..Len(probs) |->
                IF ~(Gt(probs[i], Zero) /\ Lt(probs[i], One)) THEN Half
                ELSE probs[i]]
        Built(clamped) ==
            [SoftPity |-> soft, OffProbs |-> clamped,
             MaxOff |-> IF maxOff <= 0 THEN Len(clamped) ELSE maxOff,
             GuaranteedNext |-> FALSE, OffStreak |-> 0]
    IN  Built(Clamped(IF Len(offProbs) = 0 THEN <<Half>> ELSE offProbs))

\* BannerSystem.currentOffProb: the entry at OffStreak (the last one beyond
\* the list), p <= 0 raised to math.SmallestNonzeroFloat64 and then p >= 1
\* lowered to 1 - 1e-12, the value of ProbCap; NaN passes both tests
currentOffProb(b) ==
    LET Raised(p) == IF Le(p, Zero) THEN SmallestNonzeroFloat64 ELSE p
        Kept(p) == IF Ge(p, One) THEN ProbCap ELSE p
        Last(i) == IF i >= Len(b.OffProbs) THEN Len(b.OffProbs) - 1 ELSE i
    IN  IF Len(b.OffProbs) = 0 THEN Half
        ELSE Kept(Raised(
                 b.OffProbs[Last(IF b.OffStreak < 0 THEN 0 ELSE b.OffStreak) + 1]))

\* the zero BannerOutcome returned with an error
NoOutcome == [Hit |-> FALSE, IsUp |-> FALSE, Count |-> 0,
              GuaranteedNext |-> FALSE, OffStreak |-> 0]

\* the BannerOutcome Draw builds from the fields of b
Outcome(b, hit, isUp) ==
    [Hit |-> hit, IsUp |-> isUp, Count |-> b.SoftPity.Count,
     GuaranteedNext |-> b.GuaranteedNext, OffStreak |-> b.OffStreak]

\* a BannerSystem.Draw that flips the guarantee at OffStreak >= MaxOff, as the
\* doc comment of BannerSystem says
BannerSystemDrawGe(b, pBase, u1, u2) ==
    LET Ret(b2, hit, isUp, used) ==
            [b |-> b2, o |-> Outcome(b2, hit, isUp), err |-> NoErr,
             used |-> used]
        Flip(b2) == IF b2.OffStreak >= b2.MaxOff
                    THEN [b2 EXCEPT !.GuaranteedNext = TRUE] ELSE b2
        Decide(b1, d, used) ==
            IF d.err # NoErr
            THEN [b |-> b1, o |-> NoOutcome, err |-> d.err, used |-> used + d.used]
            ELSE IF d.hit
            THEN Ret(Flip([b1 EXCEPT !.OffStreak = @ + 1]), TRUE, FALSE,
                     used + d.used)
            ELSE Ret([b1 EXCEPT !.OffStreak = 0, !.GuaranteedNext = FALSE],
                     TRUE, TRUE, used + d.used)
        OnHit(b1, used) ==
            IF b1.GuaranteedNext
            THEN Ret([b1 EXCEPT !.GuaranteedNext = FALSE, !.OffStreak = 0],
                     TRUE, TRUE, used)
            ELSE Decide(b1, Draw(currentOffProb(b1), u2), used)
        After(h) ==
            IF h.err # NoErr
            THEN [b |-> b, o |-> NoOutcome, err |-> h.err, used |-> h.used]
            ELSE IF ~h.hit
            THEN Ret([b EXCEPT !.SoftPity = h.s], FALSE, FALSE, h.used)
            ELSE OnHit([b EXCEPT !.SoftPity = h.s], h.used)
    IN  After(SoftPitySystemDraw(b.SoftPity, pBase, u1))

\* a BannerSystem.Draw that flips the guarantee one off-banner hit late
BannerSystemDrawLateFlip(b, pBase, u1, u2) ==
    LET Ret(b2, hit, isUp, used) ==
            [b |-> b2, o |-> Outcome(b2, hit, isUp), err |-> NoErr,
             used |-> used]
        Flip(b2) == IF b2.OffStreak > b2.MaxOff + 1
                    THEN [b2 EXCEPT !.GuaranteedNext = TRUE] ELSE b2
        Decide(b1, d, used) ==
            IF d.err # NoErr
            THEN [b |-> b1, o |-> NoOutcome, err |-> d.err, used |-> used + d.used]
            ELSE IF d.hit
            THEN Ret(Flip([b1 EXCEPT !.OffStreak = @ + 1]), TRUE, FALSE,
                     used + d.used)
            ELSE Ret([b1 EXCEPT !.OffStreak = 0, !.GuaranteedNext = FALSE],
                     TRUE, TRUE, used + d.used)
        OnHit(b1, used) ==
            IF b1.GuaranteedNext
            THEN Ret([b1 EXCEPT !.GuaranteedNext = FALSE, !.OffStreak = 0],
                     TRUE, TRUE, used)
            ELSE Decide(b1, Draw(currentOffProb(b1), u2), used)
        After(h) ==
            IF h.err # NoErr
            THEN [b |-> b, o |-> NoOutcome, err |-> h.err, used |-> h.used]
            ELSE IF ~h.hit
            THEN Ret([b EXCEPT !.SoftPity = h.s], FALSE, FALSE, h.used)
            ELSE OnHit([b EXCEPT !.SoftPity = h.s], h.used)
    IN  After(SoftPitySystemDraw(b.SoftPity, pBase, u1))

\* a BannerSystem.Draw that leaves the guarantee set on the hit it forces UP
BannerSystemDrawSticky(b, pBase, u1, u2) ==
    LET Ret(b2, hit, isUp, used) ==
            [b |-> b2, o |-> Outcome(b2, hit, isUp), err |-> NoErr,
             used |-> used]
        Flip(b2) == IF b2.OffStreak > b2.MaxOff
                    THEN [b2 EXCEPT !.GuaranteedNext = TRUE] ELSE b2
        Decide(b1, d, used) ==
            IF d.err # NoErr
            THEN [b |-> b1, o |-> NoOutcome, err |-> d.err, used |-> used + d.used]
            ELSE IF d.hit
            THEN Ret(Flip([b1 EXCEPT !.OffStreak = @ + 1]), TRUE, FALSE,
                     used + d.used)
            ELSE Ret([b1 EXCEPT !.OffStreak = 0, !.GuaranteedNext = FALSE],
                     TRUE, TRUE, used + d.used)
        OnHit(b1, used) ==
            IF b1.GuaranteedNext
            THEN Ret([b1 EXCEPT !.OffStreak = 0],
                     TRUE, TRUE, used)
            ELSE Decide(b1, Draw(currentOffProb(b1), u2), used)
        After(h) ==
            IF h.err # NoErr
            THEN [b |-> b, o |-> NoOutcome, err |-> h.err, used |-> h.used]
            ELSE IF ~h.hit
            THEN Ret([b EXCEPT !.SoftPity = h.s], FALSE, FALSE, h.used)
            ELSE OnHit([b EXCEPT !.SoftPity = h.s], h.used)
    IN  After(SoftPitySystemDraw(b.SoftPity, pBase, u1))

\* a BannerSystem.Draw whose forced UP clears the guarantee but not OffStreak
BannerSystemDrawKeepsStreak(b, pBase, u1, u2) ==
    LET Ret(b2, hit, isUp, used) ==
            [b |-> b2, o |-> Outcome(b2, hit, isUp), err |-> NoErr,
             used |-> used]
        Flip(b2) == IF b2.OffStreak > b2.MaxOff
                    THEN [b2 EXCEPT !.GuaranteedNext = TRUE] ELSE b2
        Decide(b1, d, used) ==
            IF d.err # NoErr
            THEN [b |-> b1, o |-> NoOutcome, err |-> d.err, used |-> used + d.used]
            ELSE IF d.hit
            THEN Ret(Flip([b1 EXCEPT !.OffStreak = @ + 1]), TRUE, FALSE,
                     used + d.used)
            ELSE Ret([b1 EXCEPT !.OffStreak = 0, !.GuaranteedNext = FALSE],
                     TRUE, TRUE, used + d.used)
        OnHit(b1, used) ==
            IF b1.GuaranteedNext
            THEN Ret([b1 EXCEPT !.GuaranteedNext = FALSE],
                     TRUE, TRUE, used)
            ELSE Decide(b1, Draw(currentOffProb(b1), u2), used)
        After(h) ==
            IF h.err # NoErr
            THEN [b |-> b, o |-> NoOutcome, err |-> h.err, used |-> h.used]
            ELSE IF ~h.hit
            THEN Ret([b EXCEPT !.SoftPity = h.s], FALSE, FALSE, h.used)
            ELSE OnHit([b EXCEPT !.SoftPity = h.s], h.used)
    IN  After(SoftPitySystemDraw(b.SoftPity, pBase, u1))

\* a BannerSystem.Draw whose outcome reports the fields before the call
BannerSystemDrawStaleOutcome(b, pBase, u1, u2) ==
    LET Ret(b2, hit, isUp, used) ==
            [b |-> b2, o |-> Outcome(b, hit, isUp), err |-> NoErr,
             used |-> used]
        Flip(b2) == IF b2.OffStreak > b2.MaxOff
                    THEN [b2 EXCEPT !.GuaranteedNext = TRUE] ELSE b2
        Decide(b1, d, used) ==
            IF d.err # NoErr
            THEN [b |-> b1, o |-> NoOutcome, err |-> d.err, used |-> used + d.used]
            ELSE IF d.hit
            THEN Ret(Flip([b1 EXCEPT !.OffStreak = @ + 1]), TRUE, FALSE,
                     used + d.used)
            ELSE Ret([b1 EXCEPT !.OffStreak = 0, !.GuaranteedNext = FALSE],
                     TRUE, TRUE, used + d.used)
        OnHit(b1, used) ==
            IF b1.GuaranteedNext
            THEN Ret([b1 EXCEPT !.GuaranteedNext = FALSE, !.OffStreak = 0],
                     TRUE, TRUE, used)
            ELSE Decide(b1, Draw(currentOffProb(b1), u2), used)
        After(h) ==
            IF h.err # NoErr
            THEN [b |-> b, o |-> NoOutcome, err |-> h.err, used |-> h.used]
            ELSE IF ~h.hit
            THEN Ret([b EXCEPT !.SoftPity = h.s], FALSE, FALSE, h.used)
            ELSE OnHit([b EXCEPT !.SoftPity = h.s], h.used)
    IN  After(SoftPitySystemDraw(b.SoftPity, pBase, u1))

\* a BannerSystem.Draw in which a miss ends the run of off-banner hits
BannerSystemDrawMissResets(b, pBase, u1, u2) ==
    LET Ret(b2, hit, isUp, used) ==
            [b |-> b2, o |-> Outcome(b2, hit, isUp), err |-> NoErr,
             used |-> used]
        Flip(b2) == IF b2.OffStreak > b2.MaxOff
                    THEN [b2 EXCEPT !.GuaranteedNext = TRUE] ELSE b2
        Decide(b1, d, used) ==
            IF d.err # NoErr
            THEN [b |-> b1, o |-> NoOutcome, err |-> d.err, used |-> used + d.used]
            ELSE IF d.hit
            THEN Ret(Flip([b1 EXCEPT !.OffStreak = @ + 1]), TRUE, FALSE,
                     used + d.used)
            ELSE Ret([b1 EXCEPT !.OffStreak = 0, !.GuaranteedNext = FALSE],
                     TRUE, TRUE, used + d.used)
        OnHit(b1, used) ==
            IF b1.GuaranteedNext
            THEN Ret([b1 EXCEPT !.GuaranteedNext = FALSE, !.OffStreak = 0],
                     TRUE, TRUE, used)
            ELSE Decide(b1, Draw(currentOffProb(b1), u2), used)
        After(h) ==
            IF h.err # NoErr
            THEN [b |-> b, o |-> NoOutcome, err |-> h.err, used |-> h.used]
            ELSE IF ~h.hit
            THEN Ret([b EXCEPT !.SoftPity = h.s, !.OffStreak = 0], FALSE, FALSE, h.used)
            ELSE OnHit([b EXCEPT !.SoftPity = h.s], h.used)
    IN  After(SoftPitySystemDraw(b.SoftPity, pBase, u1))

\* a BannerSystem.Draw that asks the source for the off/UP decision although
\* the guarantee fixes it
BannerSystemDrawAsksWhenGuaranteed(b, pBase, u1, u2) ==
    LET Ret(b2, hit, isUp, used) ==
            [b |-> b2, o |-> Outcome(b2, hit, isUp), err |-> NoErr,
             used |-> used]
        Flip(b2) == IF b2.OffStreak > b2.MaxOff
                    THEN [b2 EXCEPT !.GuaranteedNext = TRUE] ELSE b2
        Decide(b1, d, used) ==
            IF d.err # NoErr
            THEN [b |-> b1, o |-> NoOutcome, err |-> d.err, used |-> used + d.used]
            ELSE IF d.hit
            THEN Ret(Flip([b1 EXCEPT !.OffStreak = @ + 1]), TRUE, FALSE,
                     used + d.used)
            ELSE Ret([b1 EXCEPT !.OffStreak = 0, !.GuaranteedNext = FALSE],
                     TRUE, TRUE, used + d.used)
        OnHit(b1, used) ==
            IF b1.GuaranteedNext
            THEN Ret([b1 EXCEPT !.GuaranteedNext = FALSE, !.OffStreak = 0],
                     TRUE, TRUE, used + 1)
            ELSE Decide(b1, Draw(currentOffProb(b1), u2), used)
        After(h) ==
            IF h.err # NoErr
            THEN [b |-> b, o |-> NoOutcome, err |-> h.err, used |-> h.used]
            ELSE IF ~h.hit
            THEN Ret([b EXCEPT !.SoftPity = h.s], FALSE, FALSE, h.used)
            ELSE OnHit([b EXCEPT !.SoftPity = h.s], h.used)
    IN  After(SoftPitySystemDraw(b.SoftPity, pBase, u1))

\* BannerSystem.Draw(pBase): u1 is the value the source returns to the hit
\* draw and u2 the value it returns to the off/UP draw, when they ask
BannerSystemDraw(b, pBase, u1, u2) ==
    LET Ret(b2, hit, isUp, used) ==
            [b |-> b2, o |-> Outcome(b2, hit, isUp), err |-> NoErr,
             used |-> used]
        Flip(b2) == IF b2.OffStreak > b2.MaxOff
                    THEN [b2 EXCEPT !.GuaranteedNext = TRUE] ELSE b2
        Decide(b1, d, used) ==
            IF d.err # NoErr
            THEN [b |-> b1, o |-> NoOutcome, err |-> d.err, used |-> used + d.used]
            ELSE IF d.hit
            THEN Ret(Flip([b1 EXCEPT !.OffStreak = @ + 1]), TRUE, FALSE,
                     used + d.used)
            ELSE Ret([b1 EXCEPT !.OffStreak = 0, !.GuaranteedNext = FALSE],
                     TRUE, TRUE, used + d.used)
        OnHit(b1, used) ==
            IF b1.GuaranteedNext
            THEN Ret([b1 EXCEPT !.GuaranteedNext = FALSE, !.OffStreak = 0],
                     TRUE, TRUE, used)
            ELSE Decide(b1, Draw(currentOffProb(b1), u2), used)
        After(h) ==
            IF h.err # NoErr
            THEN [b |-> b, o |-> NoOutcome, err |-> h.err, used |-> h.used]
            ELSE IF ~h.hit
            THEN Ret([b EXCEPT !.SoftPity = h.s], FALSE, FALSE, h.used)
            ELSE OnHit([b EXCEPT !.SoftPity = h.s], h.used)
    IN  After(SoftPitySystemDraw(b.SoftPity, pBase, u1))

----------------------------------------------------------------------------
(* Engines the model starts from *)

Pities == MinPity..MaxPity

\* ramp targets callers pass
TargetVals == {R(i, ProbDen) : i \in 0..ProbDen} \cup {NaN}

\* start percentages callers pass
StartPcts == {R(i, ProbDen) : i \in (0 - 1)..(ProbDen + 1)}

Easings == {"", EaseLinear, EaseOutQuad, EaseInOutCubic}

\* the SimParams fields newSoft reads, for pity thresholds up to maxPity
SimParamsUpTo(maxPity) ==
    [Pity       : MinPity..maxPity,
     StartAt    : {Nil} \cup {Some(i) : i \in (0 - 1)..maxPity},
     StartPct   : {Nil} \cup {Some(x) : x \in StartPcts},
     TargetProb : {Nil} \cup {Some(x) : x \in TargetVals},
     Easing     : Easings,
     Cushion    : (0 - 1)..(maxPity + 1)]

\* the SoftPitySystems newSoft returns for the parameters in prms
SoftSystemsFrom(prms) ==
    {r.s : r \in {q \in {newSoft(prm) : prm \in prms} : q.err = NoErr}}

\* the SimParams a BannerSystem's SoftPitySystem is built from: no ramp, or
\* the linear ramp from 0 to 1/2
BannerSimParams ==
    [Pity       : MinPity..MaxBannerPity,
     StartAt    : {Nil, Some(0)},
     StartPct   : {Nil},
     TargetProb : {Nil, Some(Half)},
     Easing     : {""},
     Cushion    : {0}]

\* off probabilities callers pass; NewBannerSystem replaces NaN by 0.5
OffVals == {R(1, 2 * ProbDen), NaN}

RECURSIVE SeqsUpTo(_, _)
SeqsUpTo(S, n) ==
    IF n = 0 THEN {<<>>}
    ELSE {<<>>} \cup {<<x>> \o q : x \in S, q \in SeqsUpTo(S, n - 1)}

BannerSystems ==
    {NewBannerSystem(s, probs, m) :
        s \in SoftSystemsFrom(BannerSimParams),
        probs \in SeqsUpTo(OffVals, MaxOffLen),
        m \in 0..MaxMaxOff}

NoCall == [op |-> "none"]

\* no simulation was started
NoSim == [pc |-> "none"]

\* RunMonteCarlo was not called before
NoPrev == [mode |-> "none"]

\* no HTTP server runs
NoSrv == [mu |-> 0]

\* no Loader was made
NoLd == [calls |-> <<>>]

\* nothing was called yet
Idle ==
    /\ rngCalls = 0
    /\ rngCalls2 = 0
    /\ out = NoCall
    /\ missRun = 0
    /\ offRun = 0
    /\ sim = NoSim
    /\ prev = NoPrev
    /\ srv = NoSrv
    /\ ld = NoLd

----------------------------------------------------------------------------
(* Plain Draw calls *)

\* the probabilities and the source's next values plain Draw is tried on
DrawPs == {R(i, DrawDen) : i \in (0 - 1)..(DrawDen + 1)} \cup {NaN, PInf, NInf}
DrawUs == {R(i, DrawDen) : i \in 0..(DrawDen - 1)} \cup {UMax}

InitDraw ==
    /\ sut = "Draw"
    /\ ps = NewPitySystem(0)
    /\ sp = NilSoftPitySystem
    /\ bn = NewBannerSystem(NilSoftPitySystem, <<>>, 0)
    /\ Idle

DrawCall ==
    /\ sut = "Draw"
    /\ rngCalls < MaxCalls
    /\ \E p \in DrawPs, u \in DrawUs :
          LET Returned(r) ==
                  /\ out' = [op |-> "Draw", p |-> p, u |-> u,
                             hit |-> r.hit, err |-> r.err, used |-> r.used]
                  /\ rngCalls' = rngCalls + r.used
          IN  Returned(Draw(p, u))
    /\ UNCHANGED <<sut, ps, sp, bn, rngCalls2, missRun, offRun, sim, prev, srv, ld>>

NextDraw == DrawCall

SpecDraw == InitDraw /\ [][NextDraw]_vars

----------------------------------------------------------------------------
(* A PitySystem driven by draws *)

\* the run of misses after a call that returned (hit, err)
RunAfter(run, hit, err) ==
    IF err # NoErr THEN run ELSE IF hit THEN 0 ELSE run + 1

InitPity ==
    /\ sut = "PitySystem"
    /\ ps \in {NewPitySystem(pity) : pity \in Pities}
    /\ sp = NilSoftPitySystem
    /\ bn = NewBannerSystem(NilSoftPitySystem, <<>>, 0)
    /\ Idle

PityDraw ==
    /\ sut = "PitySystem"
    /\ rngCalls < MaxCalls
    /\ missRun <= MaxPity
    /\ \E p \in PBases, u \in URands :
          LET Returned(r) ==
                  /\ ps' = r.s
                  /\ out' = [op |-> "PitySystem.Draw", p |-> p,
                             u |-> IF r.used = 1 THEN u ELSE NoU,
                             hit |-> r.hit, err |-> r.err, used |-> r.used,
                             pre |-> ps, preRun |-> missRun]
                  /\ rngCalls' = rngCalls + r.used
                  /\ missRun' = RunAfter(missRun, r.hit, r.err)
          IN  Returned(PitySystemDraw(ps, p, u))
    /\ UNCHANGED <<sut, sp, bn, rngCalls2, offRun, sim, prev, srv, ld>>

NextPity == PityDraw

SpecPity == InitPity /\ [][NextPity]_vars

----------------------------------------------------------------------------
(* A SoftPitySystem driven by draws *)

InitSoft ==
    /\ sut = "SoftPitySystem"
    /\ ps = NewPitySystem(0)
    /\ sp \in SoftSystemsFrom(SimParamsUpTo(MaxPity))
    /\ bn = NewBannerSystem(NilSoftPitySystem, <<>>, 0)
    /\ Idle

SoftDraw ==
    /\ sut = "SoftPitySystem"
    /\ rngCalls < MaxCalls
    /\ missRun <= MaxPity
    /\ \E p \in PBases, u \in URands :
          LET Returned(r) ==
                  /\ sp' = r.s
                  /\ out' = [op |-> "SoftPitySystem.Draw", p |-> p,
                             u |-> IF r.used = 1 THEN u ELSE NoU,
                             eff |-> effectiveProb(sp, p),
                             hit |-> r.hit, err |-> r.err, used |-> r.used,
                             pre |-> sp, preRun |-> missRun]
                  /\ rngCalls' = rngCalls + r.used
                  /\ missRun' = RunAfter(missRun, r.hit, r.err)
          IN  Returned(SoftPitySystemDraw(sp, p, u))
    /\ UNCHANGED <<sut, ps, bn, rngCalls2, offRun, sim, prev, srv, ld>>

\* a PitySystem or a SoftPitySystem
InitEngines == InitPity \/ InitSoft

NextEngines == PityDraw \/ SoftDraw

SpecEngines == InitEngines /\ [][NextEngines]_vars

----------------------------------------------------------------------------
(* A BannerSystem driven by draws *)

\* the run of off-banner hits after a call that returned outcome o
OffRunAfter(run, o, err) ==
    IF err # NoErr \/ ~o.Hit THEN run ELSE IF o.IsUp THEN 0 ELSE run + 1

\* the off/UP decision is drawn: only then a second value of the source counts
AsksTwice(b, p, u1) ==
    ~b.GuaranteedNext /\ SoftPitySystemDraw(b.SoftPity, p, u1).hit

InitBanner ==
    /\ sut = "BannerSystem"
    /\ ps = NewPitySystem(0)
    /\ sp = NilSoftPitySystem
    /\ bn \in BannerSystems
    /\ Idle

BannerDraw ==
    /\ sut = "BannerSystem"
    /\ rngCalls < MaxCalls
    /\ \E p \in PBases, u1 \in URands :
          \E u2 \in IF AsksTwice(bn, p, u1) THEN URands ELSE {NoU} :
             LET Returned(r) ==
                     /\ bn' = r.b
                     /\ out' = [op |-> "BannerSystem.Draw", p |-> p,
                                hit |-> r.o.Hit, o |-> r.o, err |-> r.err,
                                used |-> r.used, pre |-> bn, preRun |-> offRun,
                                preMiss |-> missRun]
                     /\ rngCalls' = rngCalls + r.used
                     /\ missRun' = RunAfter(missRun, r.o.Hit, r.err)
                     /\ offRun' = OffRunAfter(offRun, r.o, r.err)
             IN  Returned(BannerSystemDraw(bn, p, u1, u2))
    /\ UNCHANGED <<sut, ps, sp, rngCalls2, sim, prev, srv, ld>>

NextBanner == BannerDraw

SpecBanner == InitBanner /\ [][NextBanner]_vars

----------------------------------------------------------------------------
(* Any of the three engines *)

Init == InitPity \/ InitSoft \/ InitBanner

Next == PityDraw \/ SoftDraw \/ BannerDraw

Spec == Init /\ [][Next]_vars

----------------------------------------------------------------------------
(* A PitySystem and a SoftPitySystem without ramp, side by side *)

InitPair ==
    /\ sut = "pair"
    /\ \E pity \in Pities :
          /\ ps = NewPitySystem(pity)
          /\ sp = NewSoftPitySystem(pity, NoSoft).s
    /\ bn = NewBannerSystem(NilSoftPitySystem, <<>>, 0)
    /\ Idle

\* both systems get the same base probability and read the same random
\* stream: while they have asked it equally often, its next value is the same
\* for both
PairDraw ==
    /\ sut = "pair"
    /\ rngCalls < MaxCalls
    /\ rngCalls2 < MaxCalls
    /\ missRun <= MaxPity
    /\ \E p \in PBases, u1 \in URands, u2 \in URands :
          /\ rngCalls = rngCalls2 => u1 = u2
          /\ LET Returned(r1, r2) ==
                     /\ ps' = r1.s
                     /\ sp' = r2.s
                     /\ out' = [op |-> "pair", p |-> p,
                                pity |-> [hit |-> r1.hit, err |-> r1.err],
                                soft |-> [hit |-> r2.hit, err |-> r2.err],
                                pre |-> ps]
                     /\ rngCalls' = rngCalls + r1.used
                     /\ rngCalls2' = rngCalls2 + r2.used
                     /\ missRun' = RunAfter(missRun, r1.hit, r1.err)
             IN  Returned(PitySystemDraw(ps, p, u1), SoftPitySystemDraw(sp, p, u2))
    /\ UNCHANGED <<sut, bn, offRun, sim, prev, srv, ld>>

NextPair == PairDraw

SpecPair == InitPair /\ [][NextPair]_vars


----------------------------------------------------------------------------
(* NewSoftPitySystem called with a ramp configuration *)

\* the configurations callers pass: Pity is overwritten by the constructor
SoftConfigs ==
    {SoftPityConfig(0, st, tg, e) :
        st \in (0 - 1)..MaxPity, tg \in PBases, e \in Easings}

InitNewSoft ==
    /\ sut = "NewSoftPitySystem"
    /\ ps = NewPitySystem(0)
    /\ sp = NilSoftPitySystem
    /\ bn = NewBannerSystem(NilSoftPitySystem, <<>>, 0)
    /\ Idle

NewSoftCall ==
    /\ sut = "NewSoftPitySystem"
    /\ \E pity \in Pities, soft \in SoftConfigs :
          LET Returned(r) ==
                  /\ sp' = r.s
                  /\ out' = [op |-> "NewSoftPitySystem", pity |-> pity,
                             soft |-> soft, err |-> r.err]
          IN  Returned(NewSoftPitySystem(pity, soft))
    /\ UNCHANGED <<sut, ps, bn, rngCalls, rngCalls2, missRun, offRun, sim, prev, srv,
                   ld>>

NextNewSoft == NewSoftCall

SpecNewSoft == InitNewSoft /\ [][NextNewSoft]_vars

----------------------------------------------------------------------------
(* effectiveProb along the ramp of a SoftPitySystem *)

\* the ramped systems NewSoftPitySystem accepts
RampSystems ==
    {r.s : r \in {q \in {NewSoftPitySystem(pity, SoftPityConfig(0, st, tg, e)) :
                            pity \in 2..MaxPity, st \in (0 - 1)..MaxPity,
                            tg \in {R(i, RampDen) : i \in 0..RampDen} \cup {NaN},
                            e \in Easings} :
                      q.err = NoErr}}

\* base probabilities effectiveProb is given
RampPs ==
    {R(i, RampDen) : i \in (0 - 1)..(RampDen + 1)} \cup {NaN, PInf, NInf}

InitRamp ==
    /\ sut = "effectiveProb"
    /\ ps = NewPitySystem(0)
    /\ sp \in RampSystems
    /\ bn = NewBannerSystem(NilSoftPitySystem, <<>>, 0)
    /\ Idle

\* effectiveProb(pBase) of the same system at two values c <= c2 of Count
EffectiveProbCall ==
    /\ sut = "effectiveProb"
    /\ \E p \in RampPs, c \in 0..(sp.Pity - 1), c2 \in 0..(sp.Pity - 1) :
          /\ c <= c2
          /\ out' = [op |-> "effectiveProb", p |-> p, c |-> c, c2 |-> c2,
                     lo |-> effectiveProb([sp EXCEPT !.Count = c], p),
                     hi |-> effectiveProb([sp EXCEPT !.Count = c2], p)]
    /\ UNCHANGED <<sut, ps, sp, bn, rngCalls, rngCalls2, missRun, offRun, sim, prev, srv,
                   ld>>

NextRamp == EffectiveProbCall

SpecRamp == InitRamp /\ [][NextRamp]_vars

----------------------------------------------------------------------------
(* calcStats *)

RECURSIVE SumSeq(_)
SumSeq(xs) == IF xs = <<>> THEN 0 ELSE Head(xs) + SumSeq(Tail(xs))

\* sort.Ints
RECURSIVE SortInts(_)
SortInts(xs) ==
    LET RECURSIVE Insert(_, _)
        Insert(x, ys) ==
            IF ys = <<>> THEN <<x>>
            ELSE IF x <= Head(ys) THEN <<x>> \o ys
            ELSE <<Head(ys)>> \o Insert(x, Tail(ys))
    IN  IF xs = <<>> THEN <<>> ELSE Insert(Head(xs), SortInts(Tail(xs)))

\* math.Sqrt of a rational a >= 0: exact for squares of rationals, otherwise
\* kept as the root of a
Sqrt(a) ==
    LET Root(m) == CHOOSE r \in 0..m : r * r <= m /\ (r + 1) * (r + 1) > m
        Exact(rn, rd) ==
            IF rn * rn = a.n /\ rd * rd = a.d THEN R(rn, rd)
            ELSE [k |-> "sqrt", n |-> a.n, d |-> a.d]
    IN  Exact(Root(a.n), Root(a.d))

\* the zero Stats
NoStats ==
    [Mean |-> Zero, Var |-> Zero, StdDev |-> Zero, P50 |-> Zero, P90 |-> Zero,
     P99 |-> Zero, Samples |-> <<>>]

\* a calcStats that takes the percentiles of the samples in the order given
calcStatsUnsorted(xs) ==
    LET n == Len(xs)
        F(v) == R(v, 1)
        Sq(x) == Mul(x, x)
        RECURSIVE Acc(_, _)
        Acc(ys, mean) ==
            IF ys = <<>> THEN Zero
            ELSE Add(Sq(Sub(F(Head(ys)), mean)), Acc(Tail(ys), mean))
        Between(cp, i, f) ==
            IF i + 1 >= n THEN F(cp[i + 1])
            ELSE Add(Mul(F(cp[i + 1]), Sub(One, f)), Mul(F(cp[i + 2]), f))
        At(cp, pos) == Between(cp, pos.n \div pos.d, Sub(pos, F(pos.n \div pos.d)))
        percentile(cp, p) ==
            IF n = 1 THEN F(cp[1])
            ELSE IF Le(p, Zero) THEN F(cp[1])
            ELSE IF Ge(p, One) THEN F(cp[n])
            ELSE At(cp, Mul(p, F(n - 1)))
        Built(mean, variance, cp) ==
            [Mean |-> mean, Var |-> variance, StdDev |-> Sqrt(variance),
             P50 |-> percentile(cp, R(50, 100)),
             P90 |-> percentile(cp, R(90, 100)),
             P99 |-> percentile(cp, R(99, 100)),
             Samples |-> xs]
        WithMean(mean) ==
            Built(mean, Mul(Acc(xs, mean), R(1, n)), xs)
    IN  IF n = 0 THEN NoStats ELSE WithMean(R(SumSeq(xs), n))

\* calcStats(xs)
calcStats(xs) ==
    LET n == Len(xs)
        F(v) == R(v, 1)
        Sq(x) == Mul(x, x)
        RECURSIVE Acc(_, _)
        Acc(ys, mean) ==
            IF ys = <<>> THEN Zero
            ELSE Add(Sq(Sub(F(Head(ys)), mean)), Acc(Tail(ys), mean))
        Between(cp, i, f) ==
            IF i + 1 >= n THEN F(cp[i + 1])
            ELSE Add(Mul(F(cp[i + 1]), Sub(One, f)), Mul(F(cp[i + 2]), f))
        At(cp, pos) == Between(cp, pos.n \div pos.d, Sub(pos, F(pos.n \div pos.d)))
        percentile(cp, p) ==
            IF n = 1 THEN F(cp[1])
            ELSE IF Le(p, Zero) THEN F(cp[1])
            ELSE IF Ge(p, One) THEN F(cp[n])
            ELSE At(cp, Mul(p, F(n - 1)))
        Built(mean, variance, cp) ==
            [Mean |-> mean, Var |-> variance, StdDev |-> Sqrt(variance),
             P50 |-> percentile(cp, R(50, 100)),
             P90 |-> percentile(cp, R(90, 100)),
             P99 |-> percentile(cp, R(99, 100)),
             Samples |-> xs]
        WithMean(mean) ==
            Built(mean, Mul(Acc(xs, mean), R(1, n)), SortInts(xs))
    IN  IF n = 0 THEN NoStats ELSE WithMean(R(SumSeq(xs), n))

----------------------------------------------------------------------------
(* RunMonteCarlo *)

GoalFirstHit    == "first_hit"
GoalFirstUP     == "first_up"
GoalFixedBudget == "fixed_budget"

\* a newBanner that wraps the engine in a BannerSystem also when OffProbs is empty
newBannerAlways(s, p) ==
    IF Len(p.OffProbs) < 0 THEN [set |-> FALSE, b |-> NewBannerSystem(s, <<>>, 0)]
    ELSE [set |-> TRUE, b |-> NewBannerSystem(s, p.OffProbs, p.MaxOff)]

\* newBanner(sp, p): absent (nil) when OffProbs is empty
newBanner(s, p) ==
    IF Len(p.OffProbs) = 0 THEN [set |-> FALSE, b |-> NewBannerSystem(s, <<>>, 0)]
    ELSE [set |-> TRUE, b |-> NewBannerSystem(s, p.OffProbs, p.MaxOff)]

\* RunMonteCarlo has returned (stats, err)
RunReturned(s, stats, err) ==
    [s EXCEPT !.pc = "done", !.stats = stats, !.err = err]

\* simulateOne has returned (v, nil): RunMonteCarlo stores the sample and
\* goes on to the next trial, or returns calcStats(samples) after the last
Sampled(s, v) ==
    LET Stored(samples) ==
            IF s.i + 1 < s.trials
            THEN [s EXCEPT !.samples = samples, !.i = @ + 1, !.pc = "trial"]
            ELSE RunReturned([s EXCEPT !.samples = samples, !.i = @ + 1],
                          calcStats(samples), NoErr)
    IN  Stored([s.samples EXCEPT ![s.i + 1] = v])

\* a RunMonteCarlo that starts a trial before it looks at trials = 0
RunMonteCarloCallLate ==
    /\ sut = "RunMonteCarlo"
    /\ sim.pc = "call"
    /\ sim' = IF sim.trials < 0 THEN RunReturned(sim, NoStats, NoErr)
              ELSE [sim EXCEPT !.pc = "trial",
                               !.samples = [k \in 1..sim.trials |-> 0]]
    /\ UNCHANGED <<sut, ps, sp, bn, rngCalls, rngCalls2, out, missRun, offRun,
                   prev, srv, ld>>

\* RunMonteCarlo up to its first call of simulateOne
RunMonteCarloCall ==
    /\ sut = "RunMonteCarlo"
    /\ sim.pc = "call"
    /\ sim' = IF sim.trials <= 0 THEN RunReturned(sim, NoStats, NoErr)
              ELSE [sim EXCEPT !.pc = "trial",
                               !.samples = [k \in 1..sim.trials |-> 0]]
    /\ UNCHANGED <<sut, ps, sp, bn, rngCalls, rngCalls2, out, missRun, offRun,
                   prev, srv, ld>>

\* a trial that has drawn nothing yet
Fresh(s) == [s EXCEPT !.draws = 0, !.count = 0, !.hits = 0, !.ups = 0]

\* a simulateOne whose construction error is dropped: the trial records 0
SimulateOneStartSwallows ==
    /\ sut = "RunMonteCarlo"
    /\ sim.pc = "trial"
    /\ LET Entered(s, banner) ==
               IF s.goal = GoalFirstHit \/ s.goal = GoalFirstUP
               THEN [s EXCEPT !.pc = "loop"]
               ELSE IF s.goal = GoalFixedBudget
               THEN IF ~s.budget.set \/ s.budget.v <= 0 THEN Sampled(s, 0)
                    ELSE [s EXCEPT !.pc = "loop"]
               ELSE Sampled(s, 0)
           Built(r) ==
               IF r.err # NoErr
               THEN /\ sim' = Sampled(Fresh(sim), 0)
                    /\ sp' = NilSoftPitySystem
                    /\ UNCHANGED bn
               ELSE /\ sp' = r.s
                    /\ bn' = newBanner(r.s, sim.p).b
                    /\ sim' = Entered([Fresh(sim) EXCEPT
                                         !.built = @ + 1,
                                         !.banner = newBanner(r.s, sim.p).set],
                                      newBanner(r.s, sim.p))
       IN  Built(newSoft(sim.p))
    /\ UNCHANGED <<sut, ps, rngCalls, rngCalls2, out, missRun, offRun, prev,
                   srv, ld>>

\* a simulateOne that builds the engines for the first trial only
SimulateOneStartKeepsEngines ==
    /\ sut = "RunMonteCarlo"
    /\ sim.pc = "trial"
    /\ LET Entered(s, banner) ==
               IF s.goal = GoalFirstHit \/ s.goal = GoalFirstUP
               THEN [s EXCEPT !.pc = "loop"]
               ELSE IF s.goal = GoalFixedBudget
               THEN IF ~s.budget.set \/ s.budget.v <= 0 THEN Sampled(s, 0)
                    ELSE [s EXCEPT !.pc = "loop"]
               ELSE Sampled(s, 0)
           Built(r) ==
               IF r.err # NoErr
               THEN /\ sim' = RunReturned(Fresh(sim),
                                       NoStats, r.err)
                    /\ sp' = NilSoftPitySystem
                    /\ UNCHANGED bn
               ELSE /\ sp' = IF sim.i = 0 THEN r.s ELSE sp
                    /\ bn' = IF sim.i = 0 THEN newBanner(r.s, sim.p).b ELSE bn
                    /\ sim' = Entered([Fresh(sim) EXCEPT
                                         !.built = @ + 1,
                                         !.banner = newBanner(r.s, sim.p).set],
                                      newBanner(r.s, sim.p))
       IN  Built(newSoft(sim.p))
    /\ UNCHANGED <<sut, ps, rngCalls, rngCalls2, out, missRun, offRun, prev,
                   srv, ld>>

\* simulateOne up to its first draw: the engines are built, and the goals that
\* draw nothing return
SimulateOneStart ==
    /\ sut = "RunMonteCarlo"
    /\ sim.pc = "trial"
    /\ LET Entered(s, banner) ==
               IF s.goal = GoalFirstHit \/ s.goal = GoalFirstUP
               THEN [s EXCEPT !.pc = "loop"]
               ELSE IF s.goal = GoalFixedBudget
               THEN IF ~s.budget.set \/ s.budget.v <= 0 THEN Sampled(s, 0)
                    ELSE [s EXCEPT !.pc = "loop"]
               ELSE Sampled(s, 0)
           Built(r) ==
               IF r.err # NoErr
               THEN /\ sim' = RunReturned(Fresh(sim),
                                       NoStats, r.err)
                    /\ sp' = NilSoftPitySystem
                    /\ UNCHANGED bn
               ELSE /\ sp' = r.s
                    /\ bn' = newBanner(r.s, sim.p).b
                    /\ sim' = Entered([Fresh(sim) EXCEPT
                                         !.built = @ + 1,
                                         !.banner = newBanner(r.s, sim.p).set],
                                      newBanner(r.s, sim.p))
       IN  Built(newSoft(sim.p))
    /\ UNCHANGED <<sut, ps, rngCalls, rngCalls2, out, missRun, offRun, prev,
                   srv, ld>>

\* the values the source can return to its call number k + 1: a second run
\* that reads the stream of the first is returned what the first was returned
Source(k) ==
    IF prev.mode = "second" /\ prev.shared /\ k < Len(prev.tape)
    THEN {prev.tape[k + 1]}
    ELSE URands

\* the caller's record after the source returned the values us
Heard(us) ==
    IF prev.mode = "first" /\ prev.shared
    THEN [prev EXCEPT !.tape = @ \o us]
    ELSE prev

\* a draw loop that counts a draw only after testing it for a hit
TrialDrawCountsLate ==
    /\ sut = "RunMonteCarlo"
    /\ sim.pc = "loop"
    /\ LET \* the loop after a draw that returned (counted, err)
           After(s, counted, err) ==
               IF err # NoErr THEN RunReturned(s, NoStats, err)
               ELSE IF s.goal = GoalFixedBudget
               THEN IF s.draws < s.budget.v
                    THEN [s EXCEPT !.count = IF counted THEN @ + 1 ELSE @]
                    ELSE Sampled(s, IF counted THEN s.count + 1 ELSE s.count)
               ELSE IF counted THEN Sampled(s, s.draws - 1) ELSE s
           \* history: the draws made, and the hits and UPs they returned
           Drawn(hit, up) ==
               [sim EXCEPT !.draws = @ + 1, !.drawn = @ + 1,
                           !.hits = IF hit THEN @ + 1 ELSE @,
                           !.ups = IF up THEN @ + 1 ELSE @]
           Soft(r, u) ==
               /\ sp' = r.s
               /\ bn' = [bn EXCEPT !.SoftPity = r.s]
               /\ rngCalls' = rngCalls + r.used
               /\ prev' = Heard(IF r.used = 1 THEN <<u>> ELSE <<>>)
               /\ sim' = After(Drawn(r.hit, FALSE), r.hit, r.err)
           Banner(r, n1, u1, u2) ==
               /\ bn' = r.b
               /\ sp' = r.b.SoftPity
               /\ rngCalls' = rngCalls + r.used
               /\ prev' = Heard((IF n1 = 1 THEN <<u1>> ELSE <<>>)
                                \o (IF r.used > n1 THEN <<u2>> ELSE <<>>))
               /\ sim' = After(Drawn(r.o.Hit, r.o.Hit /\ r.o.IsUp),
                               r.o.Hit /\ r.o.IsUp, r.err)
           \* the hit draw of a banner draw asks the source n1 times
           Asked(u1, n1) ==
               \E u2 \in IF AsksTwice(bn, sim.p.PBase, u1)
                         THEN Source(rngCalls + n1) ELSE {NoU} :
                  Banner(BannerSystemDraw(bn, sim.p.PBase, u1, u2), n1, u1, u2)
       IN  IF sim.banner /\ sim.goal # GoalFirstHit
           THEN \E u1 \in Source(rngCalls) :
                   Asked(u1, SoftPitySystemDraw(bn.SoftPity, sim.p.PBase, u1).used)
           ELSE \E u \in Source(rngCalls) :
                   Soft(SoftPitySystemDraw(sp, sim.p.PBase, u), u)
    /\ UNCHANGED <<sut, ps, rngCalls2, out, missRun, offRun, srv, ld>>

\* a draw loop that counts every hit of a banner draw, UP or off-banner
TrialDrawCountsOffHits ==
    /\ sut = "RunMonteCarlo"
    /\ sim.pc = "loop"
    /\ LET \* the loop after a draw that returned (counted, err)
           After(s, counted, err) ==
               IF err # NoErr THEN RunReturned(s, NoStats, err)
               ELSE IF s.goal = GoalFixedBudget
               THEN IF s.draws < s.budget.v
                    THEN [s EXCEPT !.count = IF counted THEN @ + 1 ELSE @]
                    ELSE Sampled(s, IF counted THEN s.count + 1 ELSE s.count)
               ELSE IF counted THEN Sampled(s, s.draws) ELSE s
           \* history: the draws made, and the hits and UPs they returned
           Drawn(hit, up) ==
               [sim EXCEPT !.draws = @ + 1, !.drawn = @ + 1,
                           !.hits = IF hit THEN @ + 1 ELSE @,
                           !.ups = IF up THEN @ + 1 ELSE @]
           Soft(r, u) ==
               /\ sp' = r.s
               /\ bn' = [bn EXCEPT !.SoftPity = r.s]
               /\ rngCalls' = rngCalls + r.used
               /\ prev' = Heard(IF r.used = 1 THEN <<u>> ELSE <<>>)
               /\ sim' = After(Drawn(r.hit, FALSE), r.hit, r.err)
           Banner(r, n1, u1, u2) ==
               /\ bn' = r.b
               /\ sp' = r.b.SoftPity
               /\ rngCalls' = rngCalls + r.used
               /\ prev' = Heard((IF n1 = 1 THEN <<u1>> ELSE <<>>)
                                \o (IF r.used > n1 THEN <<u2>> ELSE <<>>))
               /\ sim' = After(Drawn(r.o.Hit, r.o.Hit /\ r.o.IsUp),
                               r.o.Hit, r.err)
           \* the hit draw of a banner draw asks the source n1 times
           Asked(u1, n1) ==
               \E u2 \in IF AsksTwice(bn, sim.p.PBase, u1)
                         THEN Source(rngCalls + n1) ELSE {NoU} :
                  Banner(BannerSystemDraw(bn, sim.p.PBase, u1, u2), n1, u1, u2)
       IN  IF sim.banner /\ sim.goal # GoalFirstHit
           THEN \E u1 \in Source(rngCalls) :
                   Asked(u1, SoftPitySystemDraw(bn.SoftPity, sim.p.PBase, u1).used)
           ELSE \E u \in Source(rngCalls) :
                   Soft(SoftPitySystemDraw(sp, sim.p.PBase, u), u)
    /\ UNCHANGED <<sut, ps, rngCalls2, out, missRun, offRun, srv, ld>>

\* one iteration of the draw loop of simulateOne
TrialDraw ==
    /\ sut = "RunMonteCarlo"
    /\ sim.pc = "loop"
    /\ LET \* the loop after a draw that returned (counted, err)
           After(s, counted, err) ==
               IF err # NoErr THEN RunReturned(s, NoStats, err)
               ELSE IF s.goal = GoalFixedBudget
               THEN IF s.draws < s.budget.v
                    THEN [s EXCEPT !.count = IF counted THEN @ + 1 ELSE @]
                    ELSE Sampled(s, IF counted THEN s.count + 1 ELSE s.count)
               ELSE IF counted THEN Sampled(s, s.draws) ELSE s
           \* history: the draws made, and the hits and UPs they returned
           Drawn(hit, up) ==
               [sim EXCEPT !.draws = @ + 1, !.drawn = @ + 1,
                           !.hits = IF hit THEN @ + 1 ELSE @,
                           !.ups = IF up THEN @ + 1 ELSE @]
           Soft(r, u) ==
               /\ sp' = r.s
               /\ bn' = [bn EXCEPT !.SoftPity = r.s]
               /\ rngCalls' = rngCalls + r.used
               /\ prev' = Heard(IF r.used = 1 THEN <<u>> ELSE <<>>)
               /\ sim' = After(Drawn(r.hit, FALSE), r.hit, r.err)
           Banner(r, n1, u1, u2) ==
               /\ bn' = r.b
               /\ sp' = r.b.SoftPity
               /\ rngCalls' = rngCalls + r.used
               /\ prev' = Heard((IF n1 = 1 THEN <<u1>> ELSE <<>>)
                                \o (IF r.used > n1 THEN <<u2>> ELSE <<>>))
               /\ sim' = After(Drawn(r.o.Hit, r.o.Hit /\ r.o.IsUp),
                               r.o.Hit /\ r.o.IsUp, r.err)
           \* the hit draw of a banner draw asks the source n1 times
           Asked(u1, n1) ==
               \E u2 \in IF AsksTwice(bn, sim.p.PBase, u1)
                         THEN Source(rngCalls + n1) ELSE {NoU} :
                  Banner(BannerSystemDraw(bn, sim.p.PBase, u1, u2), n1, u1, u2)
       IN  IF sim.banner /\ sim.goal # GoalFirstHit
           THEN \E u1 \in Source(rngCalls) :
                   Asked(u1, SoftPitySystemDraw(bn.SoftPity, sim.p.PBase, u1).used)
           ELSE \E u \in Source(rngCalls) :
                   Soft(SoftPitySystemDraw(sp, sim.p.PBase, u), u)
    /\ UNCHANGED <<sut, ps, rngCalls2, out, missRun, offRun, srv, ld>>

\* the ramps of the simulated engines: none, the linear ramp from 0 to 1/2,
\* and two targets outside (0,1)
SimRamps ==
    {[StartAt |-> Nil, TargetProb |-> Nil],
     [StartAt |-> Some(0), TargetProb |-> Some(Half)],
     [StartAt |-> Some(0), TargetProb |-> Some(One)],
     [StartAt |-> Some(0), TargetProb |-> Some(NaN)]}

\* SimParams with the base probabilities pbs, the pity thresholds pities, the
\* ramps rps and the cushions cs, without a banner and with the banner [1/4]
SimParamsOf(pbs, pities, rps, cs) ==
    {[PBase |-> pb, Pity |-> pity, StartAt |-> rp.StartAt, StartPct |-> Nil,
      TargetProb |-> rp.TargetProb, Easing |-> "", Cushion |-> c,
      OffProbs |-> off, MaxOff |-> 0] :
        pb \in pbs, pity \in pities, rp \in rps, c \in cs,
        off \in {<<>>, <<R(1, 4)>>}}

\* goal and budget of the simulated runs
SimGoals ==
    {[goal |-> GoalFirstHit, budget |-> Nil],
     [goal |-> GoalFirstUP, budget |-> Nil],
     [goal |-> GoalFixedBudget, budget |-> Nil],
     [goal |-> GoalFixedBudget, budget |-> Some(0)],
     [goal |-> GoalFixedBudget, budget |-> Some(MaxBudget)],
     [goal |-> "", budget |-> Nil]}

\* the calls RunMonteCarlo(p, goal, trials, budget) of the model: runs of at
\* most one trial over all parameters, and runs of MaxTrials trials over the
\* valid base probabilities and the small cushions
SimCalls ==
    {[p |-> p, g |-> g, trials |-> trials] :
        p \in SimParamsOf({Zero, Half, One, NaN}, 0..MaxSimPity, SimRamps,
                          {0 - 1, 0, 1, MaxSimPity}),
        g \in SimGoals, trials \in {0 - 1, 0, 1}}
    \cup
    {[p |-> p, g |-> g, trials |-> MaxTrials] :
        p \in SimParamsOf({Zero, Half}, 1..MaxSimPity,
                          SimRamps \ {[StartAt |-> Some(0),
                                       TargetProb |-> Some(NaN)]},
                          {0, 1}),
        g \in SimGoals}

\* the caller's view of a call RunMonteCarlo(p, goal, trials, budget) that
\* has not started
Called(p, goal, trials, budget) ==
    [pc |-> "call", p |-> p, goal |-> goal, budget |-> budget,
     trials |-> trials, i |-> 0, draws |-> 0, count |-> 0, hits |-> 0,
     ups |-> 0, samples |-> <<>>, banner |-> FALSE, built |-> 0, drawn |-> 0,
     stats |-> NoStats, err |-> NoErr]

\* a caller about to call RunMonteCarlo(p, goal, trials, budget)
InitSim ==
    /\ sut = "RunMonteCarlo"
    /\ ps = NewPitySystem(0)
    /\ sp = NilSoftPitySystem
    /\ bn = NewBannerSystem(NilSoftPitySystem, <<>>, 0)
    /\ rngCalls = 0
    /\ rngCalls2 = 0
    /\ out = NoCall
    /\ missRun = 0
    /\ offRun = 0
    /\ srv = NoSrv
    /\ ld = NoLd
    /\ prev = NoPrev
    /\ \E c \in SimCalls :
          sim = Called(c.p, c.g.goal, c.trials, c.g.budget)

NextSim == RunMonteCarloCall \/ SimulateOneStart \/ TrialDraw

SpecSim == InitSim /\ [][NextSim]_vars

----------------------------------------------------------------------------
(* Two RunMonteCarlo calls, one after the other *)

\* the first call has returned and the caller calls RunMonteCarlo again, with
\* the same parameters and trials and with the goal and budget prev.then; the
\* caller keeps what the first call returned
SecondRunCall ==
    /\ sut = "RunMonteCarlo"
    /\ prev.mode = "first"
    /\ sim.pc = "done"
    /\ prev' = [prev EXCEPT !.mode = "second", !.goal = sim.goal,
                            !.samples = sim.samples, !.stats = sim.stats,
                            !.err = sim.err, !.i = sim.i, !.calls = rngCalls]
    /\ sim' = Called(sim.p, prev.then.goal, sim.trials, prev.then.budget)
    /\ sp' = NilSoftPitySystem
    /\ bn' = NewBannerSystem(NilSoftPitySystem, <<>>, 0)
    /\ rngCalls' = 0
    /\ UNCHANGED <<sut, ps, rngCalls2, out, missRun, offRun, srv, ld>>

\* SimParams without a banner
SimParamsNoBanner(pbs, pities, rps, cs) ==
    {p \in SimParamsOf(pbs, pities, rps, cs) : Len(p.OffProbs) = 0}

\* the pairs of calls of the model. shared: the sources of the two calls
\* return the same values, call by call. The engines RunMonteCarlo builds all
\* read DefaultRNG(), which no caller can seed: the pairs a caller can make
\* are the ones that are not shared
TwiceCalls ==
    LET Hit == [goal |-> GoalFirstHit, budget |-> Nil]
        Up == [goal |-> GoalFirstUP, budget |-> Nil]
        Hard == [StartAt |-> Nil, TargetProb |-> Nil]
        Ramp == [StartAt |-> Some(0), TargetProb |-> Some(Half)]
    IN  {[p |-> p, g |-> Hit, then |-> Up, trials |-> 1, shared |-> TRUE] :
            p \in SimParamsNoBanner({Zero, Half, NaN}, 0..MaxSimPity,
                                    {Hard, Ramp}, {0, 1})}
        \cup
        {[p |-> p, g |-> Hit, then |-> Up, trials |-> MaxTrials,
          shared |-> TRUE] :
            p \in SimParamsNoBanner({Half}, {2}, {Hard}, {0})}
        \cup
        {[p |-> p, g |-> g, then |-> g, trials |-> 2, shared |-> FALSE] :
            p \in SimParamsNoBanner({Half}, {2}, {Hard}, {0}),
            g \in {Hit, [goal |-> GoalFixedBudget, budget |-> Some(MaxBudget)]}}

\* a caller about to make the first of two calls
InitSimTwice ==
    /\ sut = "RunMonteCarlo"
    /\ ps = NewPitySystem(0)
    /\ sp = NilSoftPitySystem
    /\ bn = NewBannerSystem(NilSoftPitySystem, <<>>, 0)
    /\ rngCalls = 0
    /\ rngCalls2 = 0
    /\ out = NoCall
    /\ missRun = 0
    /\ offRun = 0
    /\ srv = NoSrv
    /\ ld = NoLd
    /\ \E c \in TwiceCalls :
          /\ sim = Called(c.p, c.g.goal, c.trials, c.g.budget)
          /\ prev = [mode |-> "first", shared |-> c.shared, then |-> c.then,
                     tape |-> <<>>, goal |-> "", samples |-> <<>>,
                     stats |-> NoStats, err |-> NoErr, i |-> 0, calls |-> 0]

NextSimTwice ==
    RunMonteCarloCall \/ SimulateOneStart \/ TrialDraw \/ SecondRunCall

SpecSimTwice == InitSimTwice /\ [][NextSimTwice]_vars
----------------------------------------------------------------------------
(* The HTTP handlers /draw_n_pity and /draw_n_banner *)

\* the goroutines serving requests, one request each
Reqs == 1..MaxReqs

HandlerPity   == "/draw_n_pity"
HandlerBanner == "/draw_n_banner"

\* the query of a request: p, pity, n, the optional start, start_pct, target
\* and easing, and off_probs (max_off is not sent)
Query(h, p, pity, n, ramp, off) ==
    [h |-> h, p |-> p, pity |-> pity, n |-> n, start |-> ramp.StartAt,
     startPct |-> Nil, target |-> ramp.TargetProb, easing |-> "", off |-> off]

NoQuery == Query("", Zero, 0, 0, [StartAt |-> Nil, TargetProb |-> Nil], <<>>)

\* the requests of the model: for both handlers an n that make() allocates
\* and one it does not, n = 0, a p that Draw rejects, a ramp that pity 1
\* rejects, a valid ramp, and a banner with off_probs
Queries ==
    LET Hard == [StartAt |-> Nil, TargetProb |-> Nil]
        Ramp == [StartAt |-> Some(0), TargetProb |-> Some(Half)]
    IN  {Query(h, Half, 2, n, Hard, <<>>) :
            h \in {HandlerPity, HandlerBanner}, n \in {MaxAlloc, MaxAlloc + 1}}
        \cup {Query(HandlerPity, Half, 2, n, Hard, <<>>) : n \in {0, 1}}
        \cup {Query(h, NaN, 2, MaxAlloc, Hard, <<>>) :
                h \in {HandlerPity, HandlerBanner}}
        \cup {Query(h, Half, 1, 1, Ramp, <<>>) :
                h \in {HandlerPity, HandlerBanner}}
        \cup {Query(HandlerPity, Half, 2, 1, Ramp, <<>>),
              Query(HandlerBanner, Half, 1, MaxAlloc, Hard, <<R(1, 4)>>)}

\* ensureSoftPity: the shared softSys after the call (NilSoftPitySystem is the
\* nil pointer), the error string, and whether softSys was replaced
ensureSoftPity(softSys, pity, startOpt, startPctOpt, targetOpt, easing) ==
    LET Clamp01(x) == IF Lt(x, Zero) THEN Zero ELSE IF Gt(x, One) THEN One ELSE x
        Capped(st) == IF st >= pity THEN pity - 1 ELSE st
        startAt == IF startOpt.set THEN startOpt.v
                   ELSE Capped(CeilInt(Mul(Clamp01(startPctOpt.v), R(pity, 1))))
        Differs(a, b) == a.k = "nan" \/ b.k = "nan" \/ a # b
        Need(target) ==
            \/ softSys = NilSoftPitySystem
            \/ softSys.Pity # pity
            \/ ~softSys.Soft.set
            \/ softSys.Soft.StartAt # startAt
            \/ Differs(softSys.Soft.TargetProb, target)
            \/ softSys.Soft.Easing # easing
        Built(r) ==
            IF r.err # NoErr THEN [s |-> softSys, err |-> r.err, new |-> FALSE]
            ELSE [s |-> r.s, err |-> "", new |-> TRUE]
    IN  IF ~targetOpt.set \/ (~startOpt.set /\ ~startPctOpt.set)
        THEN IF softSys = NilSoftPitySystem \/ softSys.Pity # pity
                \/ softSys.Soft.set
             THEN [s |-> NewSoftPitySystem(pity, NoSoft).s, err |-> "",
                   new |-> TRUE]
             ELSE [s |-> softSys, err |-> "", new |-> FALSE]
        ELSE IF Need(targetOpt.v)
        THEN Built(NewSoftPitySystem(
                       pity, SoftPityConfig(pity, startAt, targetOpt.v, easing)))
        ELSE [s |-> softSys, err |-> "", new |-> FALSE]

\* history: goroutine r reads or writes the shared engines. torn records that
\* it did so between two such steps of another request
Touched(s, r) ==
    [s EXCEPT !.torn = @ \/ s.batch \notin {0, r}, !.batch = r]

\* the status of a request whose handler panicked: the handler has written
\* nothing, and net/http recovers the panic and closes the connection
NoResponse == "no response"

\* the handler of goroutine r has ended with the given pc, after Unlock or not
Ended(s, r, pc, status, unlocked) ==
    [s EXCEPT !.pc[r] = pc, !.status[r] = status, !.batch = IF @ = r THEN 0 ELSE @,
              !.mu = IF unlocked THEN 0 ELSE @]

\* a request arrives; one with n <= 0 is answered 400 before the mutex
Receive(r) ==
    /\ sut = "http"
    /\ srv.pc[r] = "idle"
    /\ \E q \in Queries :
          srv' = IF q.n <= 0
                 THEN Ended([srv EXCEPT !.q[r] = q], r, "done", 400, FALSE)
                 ELSE [srv EXCEPT !.q[r] = q, !.pc[r] = "lock"]
    /\ UNCHANGED <<sut, ps, sp, bn, rngCalls, rngCalls2, out, missRun, offRun,
                   sim, prev, ld>>

\* mu.Lock()
Lock(r) ==
    /\ sut = "http"
    /\ srv.pc[r] = "lock"
    /\ srv.mu = 0
    /\ srv' = [srv EXCEPT !.mu = r, !.pc[r] = "prepare"]
    /\ UNCHANGED <<sut, ps, sp, bn, rngCalls, rngCalls2, out, missRun, offRun,
                   sim, prev, ld>>

\* history: src is the query of the request whose ensureSoftPity stored the
\* softSys in use
\* from mu.Lock() to the draw loop: ensureSoftPity, in /draw_n_banner the
\* rebuild of bannerSys, and make(n), which panics for a length above what
\* the runtime allocates. /draw_n_banner has deferred mu.Unlock(), which runs
\* on the panic too; /draw_n_pity unlocks by hand before each return
Prepare(r) ==
    /\ sut = "http"
    /\ srv.pc[r] = "prepare"
    /\ LET q == srv.q[r]
           deferred == q.h = HandlerBanner
           Differs(a, b) == a.k = "nan" \/ b.k = "nan" \/ a # b
           \* bannerSys.SoftPity != sp compares pointers: the banner wraps
           \* the softSys in use unless one of them was replaced since
           Rebuild(new) ==
               \/ ~srv.hasBanner
               \/ ~srv.wraps \/ new
               \/ /\ Len(q.off) > 0
                  /\ \/ Len(q.off) # Len(bn.OffProbs)
                     \/ \E k \in 1..Len(q.off) : Differs(q.off[k], bn.OffProbs[k])
           Made(s) ==
               IF q.n > MaxAlloc
               THEN Ended(s, r, "panicked", NoResponse, deferred)
               ELSE [s EXCEPT !.pc[r] = "draw"]
           Ensured(e) ==
               IF e.err # ""
               THEN /\ srv' = Ended(Touched(srv, r), r, "done", 400, TRUE)
                    /\ UNCHANGED <<sp, bn>>
               ELSE /\ sp' = e.s
                    /\ IF q.h = HandlerBanner
                       THEN /\ bn' = IF Rebuild(e.new)
                                     THEN NewBannerSystem(e.s, q.off, 0)
                                     ELSE bn
                            /\ srv' = Made([Touched(srv, r) EXCEPT
                                               !.hasBanner = TRUE,
                                               !.wraps = TRUE,
                                               !.src = IF e.new THEN q ELSE @])
                       ELSE /\ bn' = bn
                            /\ srv' = Made([Touched(srv, r) EXCEPT
                                               !.wraps = @ /\ ~e.new,
                                               !.src = IF e.new THEN q ELSE @])
       IN  Ensured(ensureSoftPity(sp, q.pity, q.start, q.startPct, q.target,
                                  q.easing))
    /\ UNCHANGED <<sut, ps, rngCalls, rngCalls2, out, missRun, offRun, sim,
                   prev, ld>>

\* one iteration of the draw loop: sp.Draw(p) or bannerSys.Draw(p). A draw
\* that fails is answered 400 after Unlock
DrawOne(r) ==
    /\ sut = "http"
    /\ srv.pc[r] = "draw"
    /\ LET q == srv.q[r]
           After(err) ==
               IF err # NoErr
               THEN Ended(Touched(srv, r), r, "done", 400, TRUE)
               ELSE [Touched(srv, r) EXCEPT
                        !.i[r] = @ + 1,
                        !.pc[r] = IF srv.i[r] + 1 >= q.n THEN "respond"
                                  ELSE "draw"]
           Soft(d) ==
               /\ sp' = d.s
               /\ bn' = IF srv.wraps THEN [bn EXCEPT !.SoftPity = d.s] ELSE bn
               /\ rngCalls' = rngCalls + d.used
               /\ srv' = After(d.err)
           Banner(d) ==
               /\ bn' = d.b
               /\ sp' = d.b.SoftPity
               /\ rngCalls' = rngCalls + d.used
               /\ srv' = After(d.err)
       IN  IF q.h = HandlerBanner
           THEN \E u1 \in URands :
                   \E u2 \in IF AsksTwice(bn, q.p, u1) THEN URands ELSE {NoU} :
                      Banner(BannerSystemDraw(bn, q.p, u1, u2))
           ELSE \E u \in URands : Soft(SoftPitySystemDraw(sp, q.p, u))
    /\ UNCHANGED <<sut, ps, rngCalls2, out, missRun, offRun, sim, prev, ld>>

\* after the loop: Count is read for the response, then Unlock and 200
Respond(r) ==
    /\ sut = "http"
    /\ srv.pc[r] = "respond"
    /\ srv' = Ended([Touched(srv, r) EXCEPT
                        !.count[r] = IF srv.q[r].h = HandlerBanner
                                     THEN bn.SoftPity.Count ELSE sp.Count],
                    r, "done", 200, TRUE)
    /\ UNCHANGED <<sut, ps, sp, bn, rngCalls, rngCalls2, out, missRun, offRun,
                   sim, prev, ld>>

\* the server has started: softSys and bannerSys are nil, mu is unlocked
InitHTTP ==
    /\ sut = "http"
    /\ ps = NewPitySystem(0)
    /\ sp = NilSoftPitySystem
    /\ bn = NewBannerSystem(NilSoftPitySystem, <<>>, 0)
    /\ rngCalls = 0
    /\ rngCalls2 = 0
    /\ out = NoCall
    /\ missRun = 0
    /\ offRun = 0
    /\ sim = NoSim
    /\ prev = NoPrev
    /\ srv = [mu |-> 0, pc |-> [r \in Reqs |-> "idle"],
              q |-> [r \in Reqs |-> NoQuery], i |-> [r \in Reqs |-> 0],
              status |-> [r \in Reqs |-> 0], count |-> [r \in Reqs |-> 0],
              hasBanner |-> FALSE, wraps |-> FALSE, batch |-> 0,
              torn |-> FALSE, src |-> NoQuery]
    /\ ld = NoLd

NextHTTP ==
    \E r \in Reqs :
       Receive(r) \/ Lock(r) \/ Prepare(r) \/ DrawOne(r) \/ Respond(r)

SpecHTTP == InitHTTP /\ [][NextHTTP]_vars

-----------------------------------------------------------------------------
(* NewBannerSystem on arbitrary arguments *)

\* the float64 values a caller may put in offProbs
OffProbInputs ==
    {Zero, One, Half, R(1, 2 * ProbDen), R(0 - 1, ProbDen),
     R(ProbDen + 1, ProbDen), NaN}

InitNewBanner ==
    /\ sut = "NewBannerSystem"
    /\ ps = NewPitySystem(0)
    /\ sp = NilSoftPitySystem
    /\ bn = NewBannerSystem(NilSoftPitySystem, <<>>, 0)
    /\ Idle

\* a call of NewBannerSystem(soft, offProbs, maxOff).  slice is the caller's
\* slice after the call: the function assigns only to its own variables
\* offProbs and p and to the elements of clamped
NewBannerCall ==
    /\ sut = "NewBannerSystem"
    /\ \E probs \in SeqsUpTo(OffProbInputs, MaxOffLen + 1),
          maxOff \in MinPity..MaxMaxOff :
          /\ bn' = NewBannerSystem(sp, probs, maxOff)
          /\ out' = [op |-> "NewBannerSystem", probs |-> probs,
                     maxOff |-> maxOff, slice |-> probs]
    /\ UNCHANGED <<sut, ps, sp, rngCalls, rngCalls2, missRun, offRun, sim, prev, srv,
                   ld>>

NextNewBanner == NewBannerCall

SpecNewBanner == InitNewBanner /\ [][NextNewBanner]_vars

-----------------------------------------------------------------------------
(* calcStats on arbitrary samples *)

\* the sample slices handed to calcStats
SampleSets == SeqsUpTo(0..MaxSample, MaxSamples)

\* the call of calcStats(xs) is about to be made
InitStats ==
    /\ sut = "calcStats"
    /\ ps = NewPitySystem(0)
    /\ sp = NilSoftPitySystem
    /\ bn = NewBannerSystem(NilSoftPitySystem, <<>>, 0)
    /\ rngCalls = 0
    /\ rngCalls2 = 0
    /\ \E xs \in SampleSets : out = [op |-> "calcStats.call", xs |-> xs]
    /\ missRun = 0
    /\ offRun = 0
    /\ sim = NoSim
    /\ prev = NoPrev
    /\ srv = NoSrv
    /\ ld = NoLd

\* calcStats(xs) returns
CalcStatsCall ==
    /\ sut = "calcStats"
    /\ out.op = "calcStats.call"
    /\ out' = [op |-> "calcStats", xs |-> out.xs, stats |-> calcStats(out.xs)]
    /\ UNCHANGED <<sut, ps, sp, bn, rngCalls, rngCalls2, missRun, offRun, sim, prev, srv,
                   ld>>

NextStats == CalcStatsCall

SpecStats == InitStats /\ [][NextStats]_vars

-----------------------------------------------------------------------------
(* package game: RawConfig, mergeRaw, ValidateRaw *)

\* SoftCfg; a nil *int or *float64 is Nil
SoftCfg(mode, startAt, startPct, target, increment, easing) ==
    [Mode |-> mode, StartAt |-> startAt, StartPct |-> startPct,
     Target |-> target, Increment |-> increment, Easing |-> easing]

BannerConfig(offProbs, maxOff) == [OffProbs |-> offProbs, MaxOff |-> maxOff]

TokenConfig(perDraw, perTenDraw) == [PerDraw |-> perDraw, PerTenDraw |-> perTenDraw]

\* RawConfig; Soft, Banner and Tokens are pointers, Nil when absent
RawConfig(version, pBase, pity, soft, banner, tokens, notes) ==
    [Version |-> version,
     Draw |-> [PBase |-> pBase, Pity |-> pity, Soft |-> soft],
     Banner |-> banner, Tokens |-> tokens, Notes |-> notes]

\* RawConfig{}
ZeroRawConfig == RawConfig("", Nil, Nil, Nil, Nil, Nil, "")

\* mergeRaw(a, b): the RawConfig it returns
mergeRaw(a, b) ==
    LET Str(x, y) == IF y # "" THEN y ELSE x
        \* if out.X == nil && b.X != nil { out.X = b.X }
        Ptr(x, y) == IF ~x.set /\ y.set THEN y ELSE x
        Soft(x, y) ==
            IF ~x.set /\ y.set THEN y
            ELSE IF x.set /\ y.set
            THEN Some(SoftCfg(Str(x.v.Mode, y.v.Mode),
                              Ptr(x.v.StartAt, y.v.StartAt),
                              Ptr(x.v.StartPct, y.v.StartPct),
                              Ptr(x.v.Target, y.v.Target),
                              Ptr(x.v.Increment, y.v.Increment),
                              Str(x.v.Easing, y.v.Easing)))
            ELSE x
        Banner(x, y) ==
            IF ~x.set /\ y.set THEN y
            ELSE IF x.set /\ y.set
            THEN Some(BannerConfig(
                     IF Len(y.v.OffProbs) > 0 THEN y.v.OffProbs ELSE x.v.OffProbs,
                     IF y.v.MaxOff # 0 THEN y.v.MaxOff ELSE x.v.MaxOff))
            ELSE x
        Tokens(x, y) ==
            IF ~x.set /\ y.set THEN y
            ELSE IF x.set /\ y.set
            THEN Some(TokenConfig(Ptr(x.v.PerDraw, y.v.PerDraw),
                                  Ptr(x.v.PerTenDraw, y.v.PerTenDraw)))
            ELSE x
    IN  RawConfig(Str(a.Version, b.Version),
                  Ptr(a.Draw.PBase, b.Draw.PBase),
                  Ptr(a.Draw.Pity, b.Draw.Pity),
                  Soft(a.Draw.Soft, b.Draw.Soft),
                  Banner(a.Banner, b.Banner),
                  Tokens(a.Tokens, b.Tokens),
                  Str(a.Notes, b.Notes))

\* mergeRaw(a, b): the caller's a after the call. out := a copies the
\* pointers, so where a and b both have a Soft, a Banner or a Tokens the
\* fields are written in the struct a points to
mergeRawArg(a, b) ==
    LET Shared(x, y, m) == IF x.set /\ y.set THEN m ELSE x
        Merged(m) ==
            [a EXCEPT !.Draw.Soft = Shared(a.Draw.Soft, b.Draw.Soft, m.Draw.Soft),
                      !.Banner = Shared(a.Banner, b.Banner, m.Banner),
                      !.Tokens = Shared(a.Tokens, b.Tokens, m.Tokens)]
    IN  Merged(mergeRaw(a, b))

\* the configurations a default, game or pool file may hold
RawConfigs ==
    LET Ramp == SoftCfg("target_ramp", Some(0), Nil, Some(Half), Nil, "")
        Pct  == SoftCfg("", Nil, Some(Half), Nil, Some(R(1, 2 * ProbDen)),
                        "easeOutQuad")
    IN  {RawConfig("", pBase, pity, soft, Nil, Nil, "") :
            pBase \in {Nil, Some(R(1, 2 * ProbDen))},
            pity \in {Nil, Some(MaxPity), Some(MaxPity + 1)},
            soft \in {Nil, Some(Ramp), Some(Pct)}}
        \cup {RawConfig("2", Nil, Nil, Nil, Some(BannerConfig(<<Half>>, 1)),
                        Some(TokenConfig(Some(1), Nil)), "n"),
              RawConfig("3", Nil, Nil, Nil, Some(BannerConfig(<<>>, 0)),
                        Some(TokenConfig(Some(2), Some(MaxPity))), "")}

\* mergeRaw(a, b) is about to be called
InitMerge ==
    /\ sut = "mergeRaw"
    /\ ps = NewPitySystem(0)
    /\ sp = NilSoftPitySystem
    /\ bn = NewBannerSystem(NilSoftPitySystem, <<>>, 0)
    /\ rngCalls = 0
    /\ rngCalls2 = 0
    /\ \E a \in RawConfigs, b \in RawConfigs :
          out = [op |-> "mergeRaw.call", a |-> a, b |-> b]
    /\ missRun = 0
    /\ offRun = 0
    /\ sim = NoSim
    /\ prev = NoPrev
    /\ srv = NoSrv
    /\ ld = NoLd

\* mergeRaw(a, b) returns
MergeRawCall ==
    /\ sut = "mergeRaw"
    /\ out.op = "mergeRaw.call"
    /\ out' = [op |-> "mergeRaw", a |-> out.a, b |-> out.b,
               merged |-> mergeRaw(out.a, out.b),
               arg |-> mergeRawArg(out.a, out.b)]
    /\ UNCHANGED <<sut, ps, sp, bn, rngCalls, rngCalls2, missRun, offRun, sim,
                   prev, srv, ld>>

NextMerge == MergeRawCall

SpecMerge == InitMerge /\ [][NextMerge]_vars

-----------------------------------------------------------------------------
(* Loader: LoadMerged and Invalidate, called from several goroutines *)

\* the goroutines that call LoadMerged, one call each
Loads == 1..MaxLoads

\* default.yaml, <game>.yaml and pools/<pool>.yaml of the one game and pool
\* of the model
Files == {"default", "game", "pool"}

\* the keys of Loader.cache
CacheKeys == {"game", "game/pool", "$default"}

\* what a configuration file is: absent, unreadable or not YAML, a version
\* and nothing else, or a version with the draw, banner and tokens blocks
FileKinds == {"missing", "bad", "plain", "blocks"}

\* the RawConfig in file f of kind "plain" or "blocks" after v - 1 changes
FileConfig(f, kind, v) ==
    LET Inc == R(1, 2 * ProbDen)
    IN  CASE kind = "plain" ->
                 [ZeroRawConfig EXCEPT !.Version = ToString(v),
                                       !.Notes = IF f = "default" THEN f ELSE ""]
          [] f = "default" ->
                 RawConfig(ToString(v), Some(Inc), Some(MaxPity),
                           Some(SoftCfg("target_ramp", Some(0), Nil, Some(Half),
                                        Nil, "linear")),
                           Some(BannerConfig(<<Half>>, 1)),
                           Some(TokenConfig(Some(1), Nil)), f)
          [] f = "game" ->
                 RawConfig(ToString(v), Nil, Some(MaxPity + 1),
                           Some(SoftCfg("per_draw_increment", Nil, Nil, Nil,
                                        Some(Inc), "easeOutQuad")),
                           Some(BannerConfig(<<Inc>>, 2)),
                           Some(TokenConfig(Some(2), Some(MaxPity))), "")
          [] OTHER ->
                 RawConfig(ToString(v), Some(Half), Nil,
                           Some(SoftCfg("target_ramp", Some(1), Nil, Nil, Nil,
                                        "easeInQuad")),
                           Some(BannerConfig(<<One>>, 3)), Nil, "")

\* readYAML of file f: a missing file is RawConfig{} without an error, a file
\* that cannot be read or parsed is RawConfig{} with an error. v (history) is
\* the number of the file's content
readYAML(f, kind, v) ==
    [cfg |-> IF kind \in {"missing", "bad"} THEN ZeroRawConfig
             ELSE FileConfig(f, kind, v),
     err |-> IF kind = "bad" THEN "read " \o f ELSE NoErr,
     v |-> v]

\* no entry in the cache, no value read or returned yet
NoEntry == [ok |-> FALSE, cfg |-> ZeroRawConfig,
            from |-> [f \in Files |-> 0]]

\* NewLoader, and the three files as first written, each with or without the
\* blocks
InitLoader ==
    /\ sut = "Loader"
    /\ ps = NewPitySystem(0)
    /\ sp = NilSoftPitySystem
    /\ bn = NewBannerSystem(NilSoftPitySystem, <<>>, 0)
    /\ rngCalls = 0
    /\ rngCalls2 = 0
    /\ out = NoCall
    /\ missRun = 0
    /\ offRun = 0
    /\ sim = NoSim
    /\ prev = NoPrev
    /\ srv = NoSrv
    /\ \E kind \in [Files -> {"plain", "blocks"}] :
          ld = [disk |-> [f \in Files |-> 1], kind |-> kind, edits |-> 0,
                cache |-> [k \in CacheKeys |-> NoEntry],
                floor |-> [f \in Files |-> 0],
                calls |-> [c \in Loads |->
                             [pc |-> "idle", pool |-> "",
                              floor |-> [f \in Files |-> 0],
                              def |-> readYAML("default", "missing", 0),
                              gm |-> readYAML("game", "missing", 0),
                              pl |-> readYAML("pool", "missing", 0),
                              ret |-> NoEntry, err |-> NoErr]]]

\* LoadMerged(game, pool) from its call to RUnlock: under the read lock a
\* cached game/pool entry is returned. floor (history) is the state of the
\* files when Invalidate last returned before this call
LoadMergedLookup(c) ==
    /\ sut = "Loader"
    /\ ld.calls[c].pc = "idle"
    /\ \E pool \in {"", "pool"} :
          LET hit == pool # "" /\ ld.cache["game/pool"].ok
          IN  ld' = [ld EXCEPT
                        !.calls[c].pool = pool,
                        !.calls[c].floor = ld.floor,
                        !.calls[c].ret = IF hit THEN ld.cache["game/pool"] ELSE @,
                        !.calls[c].pc = IF hit THEN "done" ELSE "readDefault"]
    /\ UNCHANGED <<sut, ps, sp, bn, rngCalls, rngCalls2, out, missRun, offRun, sim,
                   prev, srv>>

\* readYAML(l.paths.DefaultPath()), readYAML(l.paths.GamePath(game)),
\* readYAML(l.paths.PoolPath(game, pool)): no lock is held. An error of the
\* default file ends the call with RawConfig{} and the error; an error of the
\* game or the pool file is dropped
LoadMergedRead(c) ==
    /\ sut = "Loader"
    /\ LET Read(f) == readYAML(f, ld.kind[f], ld.disk[f])
       IN  \/ /\ ld.calls[c].pc = "readDefault"
              /\ ld' = IF Read("default").err # NoErr
                       THEN [ld EXCEPT !.calls[c].ret = NoEntry,
                                       !.calls[c].err = "read default",
                                       !.calls[c].pc = "done"]
                       ELSE [ld EXCEPT !.calls[c].def = Read("default"),
                                       !.calls[c].pc = "readGame"]
           \/ /\ ld.calls[c].pc = "readGame"
              /\ ld' = [ld EXCEPT !.calls[c].gm = Read("game"),
                                  !.calls[c].pc = IF ld.calls[c].pool # ""
                                                  THEN "readPool" ELSE "store"]
           \/ /\ ld.calls[c].pc = "readPool"
              /\ ld' = [ld EXCEPT !.calls[c].pl = Read("pool"),
                                  !.calls[c].pc = "store"]
    /\ UNCHANGED <<sut, ps, sp, bn, rngCalls, rngCalls2, out, missRun, offRun, sim,
                   prev, srv>>

\* lines 72-84 of LoadMerged: merged, the value stored under the game's key
\* and defCfg as they are when the cache has been written. merged := defCfg
\* copies the Soft, Banner and Tokens pointers and mergeRaw writes through
\* the pointers of its first argument, so where defCfg has a block the three
\* merges write in the one struct that defCfg, merged and the game's entry
\* point to
LoadMergedMerge(defCfg, gameCfg, poolCfg) ==
    LET \* cfg, whose pointers are defCfg's where defCfg has the block, when
        \* the structs defCfg points to are as in d
        Shares(cfg, d) ==
            [cfg EXCEPT
                !.Draw.Soft = IF defCfg.Draw.Soft.set THEN d.Draw.Soft ELSE @,
                !.Banner = IF defCfg.Banner.set THEN d.Banner ELSE @,
                !.Tokens = IF defCfg.Tokens.set THEN d.Tokens ELSE @]
        \* merged = mergeRaw(merged, gameCfg)
        merged1 == mergeRaw(defCfg, gameCfg)
        defCfg1 == mergeRawArg(defCfg, gameCfg)
        \* merged = mergeRaw(merged, poolCfg)
        merged2 == mergeRaw(merged1, poolCfg)
        defCfg2 == Shares(defCfg1, merged2)
        \* l.cache[game] = mergeRaw(defCfg, gameCfg)
        game == mergeRaw(defCfg2, gameCfg)
        defCfg3 == mergeRawArg(defCfg2, gameCfg)
    IN  [merged |-> Shares(merged2, defCfg3), game |-> game, defCfg |-> defCfg3]

\* the merge and, under the write lock, the three cache entries; LoadMerged
\* returns merged
LoadMergedStore(c) ==
    /\ sut = "Loader"
    /\ ld.calls[c].pc = "store"
    /\ LET call == ld.calls[c]
           Entry(cfg, pooled) ==
               [ok |-> TRUE, cfg |-> cfg,
                from |-> [f \in Files |->
                            CASE f = "default" -> call.def.v
                              [] f = "game" -> call.gm.v
                              [] OTHER -> IF pooled THEN call.pl.v ELSE 0]]
           Stored(m) ==
               [ld EXCEPT
                   !.cache["game"] = Entry(m.game, FALSE),
                   !.cache["game/pool"] =
                       IF call.pool # "" THEN Entry(m.merged, TRUE) ELSE @,
                   !.cache["$default"] = Entry(m.defCfg, FALSE),
                   !.calls[c].ret = Entry(m.merged, call.pool # ""),
                   !.calls[c].pc = "done"]
       IN  ld' = Stored(LoadMergedMerge(call.def.cfg, call.gm.cfg,
                                        IF call.pool # "" THEN call.pl.cfg
                                        ELSE ZeroRawConfig))
    /\ UNCHANGED <<sut, ps, sp, bn, rngCalls, rngCalls2, out, missRun, offRun, sim,
                   prev, srv>>

\* a configuration file is written, removed or made unreadable on disk
EditFile ==
    /\ sut = "Loader"
    /\ ld.edits < MaxEdits
    /\ \E f \in Files, kind \in FileKinds :
          ld' = [ld EXCEPT !.disk[f] = @ + 1, !.kind[f] = kind, !.edits = @ + 1]
    /\ UNCHANGED <<sut, ps, sp, bn, rngCalls, rngCalls2, out, missRun, offRun, sim,
                   prev, srv>>

\* Invalidate(): under the write lock the cache becomes an empty map
Invalidate ==
    /\ sut = "Loader"
    /\ ld' = [ld EXCEPT !.cache = [k \in CacheKeys |-> NoEntry],
                        !.floor = ld.disk]
    /\ UNCHANGED <<sut, ps, sp, bn, rngCalls, rngCalls2, out, missRun, offRun, sim,
                   prev, srv>>

NextLoader ==
    \/ \E c \in Loads :
          LoadMergedLookup(c) \/ LoadMergedRead(c) \/ LoadMergedStore(c)
    \/ EditFile
    \/ Invalidate

SpecLoader == InitLoader /\ [][NextLoader]_vars

-----------------------------------------------------------------------------
(* ValidateRaw, and the SoftPitySystem built from a validated RawConfig *)

\* ValidateRaw(cfg): the messages collected in errs, in order; the function
\* returns nil when there are none. The banner and token checks come last
ValidateRaw(cfg) ==
    LET If(c, msg) == IF c THEN <<msg>> ELSE <<>>
        pity == cfg.Draw.Pity
        pBase == cfg.Draw.PBase
        Mode(s) ==
            CASE s.Mode = "target_ramp" ->
                    (IF ~s.Target.set
                     THEN <<"draw.soft.target is required for mode=target_ramp">>
                     ELSE If(Le(s.Target.v, Zero) \/ Ge(s.Target.v, One),
                             "draw.soft.target must be in (0,1)"))
                    \o If(~s.StartAt.set /\ ~s.StartPct.set,
                          "draw.soft.start_at or start_pct is required for mode=target_ramp")
              [] s.Mode = "per_draw_increment" ->
                    If(~s.StartAt.set,
                       "draw.soft.start_at is required for mode=per_draw_increment")
                    \o (IF ~s.Increment.set
                        THEN <<"draw.soft.increment is required for mode=per_draw_increment">>
                        ELSE If(Le(s.Increment.v, Zero),
                                "draw.soft.increment must be > 0 for mode=per_draw_increment"))
              [] s.Mode \in {"", "none"} -> <<>>
              [] OTHER ->
                    <<"draw.soft.mode must be one of: target_ramp, per_draw_increment, none">>
        Bounds(s) ==
            If(pity.set /\ s.StartAt.set
                  /\ (s.StartAt.v < 0 \/ s.StartAt.v >= pity.v),
               "draw.soft.start_at must satisfy 0 <= start_at < pity")
            \o If(s.StartPct.set
                     /\ (Lt(s.StartPct.v, Zero) \/ Gt(s.StartPct.v, One)),
                  "draw.soft.start_pct must be in [0,1]")
        \* one message for each index i (from 0) of a bad off_probs entry
        BadProbs(b) ==
            SelectSeq([i \in 1..Len(b.OffProbs) |-> i],
                      LAMBDA i : ~(Gt(b.OffProbs[i], Zero) /\ Lt(b.OffProbs[i], One)))
        Banner(bad) ==
            [k \in 1..Len(bad) |->
                <<"banner.off_probs[%d] must be in (0,1)", bad[k] - 1>>]
        Tokens(t) ==
            If(t.PerDraw.set /\ t.PerDraw.v < 0, "tokens.per_draw must be >= 0")
            \o If(t.PerTenDraw.set /\ t.PerTenDraw.v < 0,
                  "tokens.per_ten_draw must be >= 0")
    IN  If(pity.set /\ pity.v <= 0, "draw.pity must be >= 1")
        \o If(pBase.set /\ (Le(pBase.v, Zero) \/ Ge(pBase.v, One)),
              "draw.p_base must be in (0,1)")
        \o (IF cfg.Draw.Soft.set
            THEN Mode(cfg.Draw.Soft.v) \o Bounds(cfg.Draw.Soft.v) ELSE <<>>)
        \o (IF cfg.Banner.set
            THEN Banner(BadProbs(cfg.Banner.v))
                 \o If(cfg.Banner.v.MaxOff < 0,
                       "banner.max_off must be >= 0 (0 means default to len(off_probs))")
            ELSE <<>>)
        \o (IF cfg.Tokens.set THEN Tokens(cfg.Tokens.v) ELSE <<>>)

\* the configurations handed to ValidateRaw
ValidateInputs ==
    {RawConfig("1", Some(Half), pity,
               Some(SoftCfg(mode, startAt, startPct, target, increment, "")),
               Nil, Nil, "") :
        pity \in {Nil} \cup {Some(n) : n \in 0..MaxPity},
        mode \in {"target_ramp", "per_draw_increment", "", "ramp"},
        startAt \in {Nil} \cup {Some(n) : n \in (0 - 1)..MaxPity},
        startPct \in {Nil, Some(R(ProbDen + 1, ProbDen))},
        target \in {Nil, Some(Zero), Some(Half), Some(One), Some(NaN)},
        increment \in {Nil, Some(Zero)}}
    \cup {RawConfig("1", pBase, Some(MaxPity), Nil, banner, tokens, "") :
            pBase \in {Nil, Some(One)},
            banner \in {Nil, Some(BannerConfig(<<Half, One>>, 0 - 1))},
            tokens \in {Nil, Some(TokenConfig(Some(0 - 1), Some(0)))}}

\* ValidateRaw(cfg) is about to be called
InitValidate ==
    /\ sut = "ValidateRaw"
    /\ ps = NewPitySystem(0)
    /\ sp = NilSoftPitySystem
    /\ bn = NewBannerSystem(NilSoftPitySystem, <<>>, 0)
    /\ rngCalls = 0
    /\ rngCalls2 = 0
    /\ \E cfg \in ValidateInputs : out = [op |-> "ValidateRaw.call", cfg |-> cfg]
    /\ missRun = 0
    /\ offRun = 0
    /\ sim = NoSim
    /\ prev = NoPrev
    /\ srv = NoSrv
    /\ ld = NoLd

\* ValidateRaw(cfg) returns; for an accepted target_ramp configuration with
\* a pity and a start_at the engine is built from its pity, start_at, target
\* and easing by NewSoftPitySystem
ValidateRawCall ==
    /\ sut = "ValidateRaw"
    /\ out.op = "ValidateRaw.call"
    /\ LET cfg == out.cfg
           Ramped(s) ==
               /\ s.set
               /\ s.v.Mode = "target_ramp"
               /\ cfg.Draw.Pity.set
               /\ s.v.StartAt.set
               /\ s.v.Target.set
           Build(s) ==
               NewSoftPitySystem(cfg.Draw.Pity.v,
                                 SoftPityConfig(cfg.Draw.Pity.v, s.StartAt.v,
                                                s.Target.v, s.Easing))
           Validated(errs) ==
               IF errs = <<>> /\ Ramped(cfg.Draw.Soft)
               THEN /\ sp' = Build(cfg.Draw.Soft.v).s
                    /\ out' = [op |-> "ValidateRaw", cfg |-> cfg, errs |-> errs,
                               built |-> TRUE,
                               err |-> Build(cfg.Draw.Soft.v).err]
               ELSE /\ sp' = sp
                    /\ out' = [op |-> "ValidateRaw", cfg |-> cfg, errs |-> errs,
                               built |-> FALSE, err |-> NoErr]
       IN  Validated(ValidateRaw(cfg))
    /\ UNCHANGED <<sut, ps, bn, rngCalls, rngCalls2, missRun, offRun, sim, prev,
                   srv, ld>>

NextValidate == ValidateRawCall

SpecValidate == InitValidate /\ [][NextValidate]_vars

-----------------------------------------------------------------------------
(* package token *)

\* a & b on non-negative ints
RECURSIVE BitAnd(_, _)
BitAnd(a, b) ==
    IF a = 0 \/ b = 0 THEN 0
    ELSE 2 * BitAnd(a \div 2, b \div 2) + (IF a % 2 = 1 /\ b % 2 = 1 THEN 1 ELSE 0)

Token(perDraw, perTenDraw, perNDraw, n) ==
    [PerDraw |-> perDraw, PerTenDraw |-> perTenDraw, PerNDraw |-> perNDraw,
     N |-> n]

\* Token.TokensForDraws(n). In Go & binds like *, so the ten-draw branch is
\* (tens & t.PerTenDraw) + (remTens * t.PerDraw)
TokensForDraws(t, n) ==
    IF n <= 0 THEN 0
    ELSE IF t.PerTenDraw > 0 /\ n >= 10 /\ t.N <= 1
    THEN BitAnd(n \div 10, t.PerTenDraw) + (n % 10) * t.PerDraw
    ELSE IF t.PerNDraw > 0 /\ n >= t.N /\ t.N > 1
    THEN (n \div t.N) * t.PerNDraw + (n % t.N) * t.PerDraw
    ELSE n * t.PerDraw

\* the tokens of the model: a ten-draw price with and without a discount or
\* none, an N-draw price or none
TokenKinds ==
    {Token(perDraw, perTenDraw, perNDraw, n) :
        perDraw \in {1, 16},
        perTenDraw \in {0, 10, 150, 160},
        perNDraw \in {0, 40},
        n \in {0, 1, 3}}

\* TokensForDraws(n) is about to be called on a Token
InitToken ==
    /\ sut = "Token"
    /\ ps = NewPitySystem(0)
    /\ sp = NilSoftPitySystem
    /\ bn = NewBannerSystem(NilSoftPitySystem, <<>>, 0)
    /\ rngCalls = 0
    /\ rngCalls2 = 0
    /\ \E t \in TokenKinds, n \in (0 - 1)..MaxDraws :
          out = [op |-> "TokensForDraws.call", t |-> t, n |-> n]
    /\ missRun = 0
    /\ offRun = 0
    /\ sim = NoSim
    /\ prev = NoPrev
    /\ srv = NoSrv
    /\ ld = NoLd

\* TokensForDraws(n) returns
TokensForDrawsCall ==
    /\ sut = "Token"
    /\ out.op = "TokensForDraws.call"
    /\ out' = [op |-> "TokensForDraws", t |-> out.t, n |-> out.n,
               tokens |-> TokensForDraws(out.t, out.n)]
    /\ UNCHANGED <<sut, ps, sp, bn, rngCalls, rngCalls2, missRun, offRun, sim,
                   prev, srv, ld>>

NextToken == TokensForDrawsCall

SpecToken == InitToken /\ [][NextToken]_vars

-----------------------------------------------------------------------------
(* package pricing *)

Pack(id, tokens, bonusTokens, firstTimeX2, priceCents) ==
    [ID |-> id, Tokens |-> tokens, BonusTokens |-> bonusTokens,
     FirstTimeX2 |-> firstTimeX2, PriceCents |-> priceCents]

Catalog(taxRate, packs) == [Currency |-> "CAD", TaxRate |-> taxRate, Packs |-> packs]

\* Plan{Currency: cat.Currency}
EmptyPlan(cat) ==
    [Purchases |-> {}, SubCents |-> 0, TaxCents |-> 0, TotalCents |-> 0,
     TotalTokens |-> 0, Currency |-> cat.Currency]

\* applyTax(sub, taxRate), for sub >= 0: math.Round is floor(x + 1/2)
applyTax(sub, taxRate) ==
    LET Round(a) == (2 * a.n + a.d) \div (2 * a.d)
        Taxed(t) == [tax |-> t, total |-> sub + t]
    IN  IF Le(taxRate, Zero) THEN [tax |-> 0, total |-> sub]
        ELSE Taxed(Round(Mul(R(sub, 1), taxRate)))

\* the effective pack variants, in the order of the catalog: the x2 variant
\* of a pack whose first-time doubling is still available (first is the set
\* of pack ids the map holds with true), then the normal variant
RECURSIVE Effs(_, _)
Effs(packs, first) ==
    IF packs = <<>> THEN <<>>
    ELSE LET p == Head(packs)
             x2 == [id |-> p.ID \o "#x2", tok |-> p.Tokens * 2 + p.BonusTokens,
                    price |-> p.PriceCents]
             normal == [id |-> p.ID, tok |-> p.Tokens + p.BonusTokens,
                        price |-> p.PriceCents]
         IN  (IF p.FirstTimeX2 /\ p.ID \in first THEN <<x2, normal>>
              ELSE <<normal>>)
             \o Effs(Tail(packs), first)

\* the plan built from the variants met on the way back through the table:
\* one Purchase for each different variant, Qty the number of times it was met
PlanOf(cat, picked) ==
    LET keys == {picked[j] : j \in 1..Len(picked)}
        Qty(k) == Cardinality({j \in 1..Len(picked) : picked[j] = k})
        Line(k) == [PackID |-> k.id, Qty |-> Qty(k), UnitPrice |-> k.price,
                    UnitTokens |-> k.tok, Subtotal |-> k.price * Qty(k)]
        sub == SumSeq([j \in 1..Len(picked) |-> picked[j].price])
        Taxed(x) ==
            [Purchases |-> {Line(k) : k \in keys}, SubCents |-> sub,
             TaxCents |-> x.tax, TotalCents |-> x.total,
             TotalTokens |-> SumSeq([j \in 1..Len(picked) |-> picked[j].tok]),
             Currency |-> cat.Currency]
    IN  Taxed(applyTax(sub, cat.TaxRate))

\* MinCostAtLeastTokens(cat, targetTokens, first)
MinCostAtLeastTokens(cat, targetTokens, first) ==
    LET effs == Effs(cat.Packs, first)
        maxTok == IF effs = <<>> THEN 0
                  ELSE CHOOSE m \in {effs[i].tok : i \in 1..Len(effs)} :
                          \A i \in 1..Len(effs) : effs[i].tok <= m
        limit == targetTokens + maxTok
        Table == [dp |-> [t \in 0..limit |-> IF t = 0 THEN 0 ELSE Inf],
                  pr |-> [t \in 0..limit |-> 0 - 1],
                  prev |-> [t \in 0..limit |-> 0 - 1]]
        Min(a, b) == IF a < b THEN a ELSE b
        \* for t := 0..limit, for i, e := range effs
        RECURSIVE Fill(_, _, _)
        Fill(s, t, i) ==
            IF t > limit THEN s
            ELSE IF s.dp[t] = Inf \/ i > Len(effs) THEN Fill(s, t + 1, 1)
            ELSE LET nt == Min(t + effs[i].tok, limit)
                     cost == s.dp[t] + effs[i].price
                 IN  Fill(IF cost < s.dp[nt]
                          THEN [dp |-> [s.dp EXCEPT ![nt] = cost],
                                pr |-> [s.pr EXCEPT ![nt] = i],
                                prev |-> [s.prev EXCEPT ![nt] = t]]
                          ELSE s, t, i + 1)
        \* pick best t >= target
        RECURSIVE Best(_, _, _)
        Best(s, t, bestT) ==
            IF t > limit THEN bestT
            ELSE Best(s, t + 1, IF s.dp[t] < s.dp[bestT] THEN t ELSE bestT)
        \* reconstruct counts
        RECURSIVE Back(_, _)
        Back(s, t) ==
            IF t > 0 /\ s.pr[t] # 0 - 1
            THEN <<effs[s.pr[t]]>> \o Back(s, s.prev[t])
            ELSE <<>>
        Solved(s) == PlanOf(cat, Back(s, Best(s, targetTokens, targetTokens)))
    IN  IF targetTokens <= 0 \/ Len(cat.Packs) = 0 THEN EmptyPlan(cat)
        ELSE IF maxTok = 0 THEN EmptyPlan(cat)
        ELSE Solved(Fill(Table, 0, 1))

\* MaxTokensUnderBudget(cat, budgetCents, first)
MaxTokensUnderBudget(cat, budgetCents, first) ==
    LET effs == Effs(cat.Packs, first)
        \* int(math.Floor(float64(budgetCents) / (1 + cat.TaxRate)))
        Floor(a) == a.n \div a.d
        rate == Add(One, cat.TaxRate)
        effBudget == IF Gt(cat.TaxRate, Zero)
                     THEN Floor(R(budgetCents * rate.d, rate.n))
                     ELSE budgetCents
        Table == [dp |-> [c \in 0..effBudget |-> 0],
                  choose |-> [c \in 0..effBudget |-> 0 - 1]]
        RECURSIVE Fill(_, _, _)
        Fill(s, c, i) ==
            IF c > effBudget THEN s
            ELSE IF i > Len(effs) THEN Fill(s, c + 1, 1)
            ELSE LET nc == c + effs[i].price
                 IN  Fill(IF nc <= effBudget /\ s.dp[c] + effs[i].tok > s.dp[nc]
                          THEN [dp |-> [s.dp EXCEPT ![nc] = s.dp[c] + effs[i].tok],
                                choose |-> [s.choose EXCEPT ![nc] = i]]
                          ELSE s, c, i + 1)
        \* best at any cost <= effBudget
        RECURSIVE Best(_, _, _)
        Best(s, c, bestC) ==
            IF c > effBudget THEN bestC
            ELSE Best(s, c + 1, IF s.dp[c] > s.dp[bestC] THEN c ELSE bestC)
        RECURSIVE Back(_, _)
        Back(s, c) ==
            IF c > 0 /\ s.choose[c] # 0 - 1
            THEN <<effs[s.choose[c]]>> \o Back(s, c - effs[s.choose[c]].price)
            ELSE <<>>
        Solved(s) == PlanOf(cat, Back(s, Best(s, 0, 0)))
    IN  IF budgetCents <= 0 \/ Len(cat.Packs) = 0 THEN EmptyPlan(cat)
        ELSE IF Len(effs) = 0 THEN EmptyPlan(cat)
        ELSE Solved(Fill(Table, 0, 1))

\* the catalogs of the model: none, pack "a", or packs "a" and "b"
Catalogs ==
    LET As == {Pack("a", tokens, bonus, x2, price) :
                  tokens \in 1..MaxPackTokens, bonus \in {0, 1},
                  x2 \in BOOLEAN, price \in 1..MaxPrice}
        Bs == {Pack("b", MaxPackTokens + 1, 0, x2, MaxPrice) : x2 \in BOOLEAN}
    IN  {Catalog(taxRate, packs) :
            taxRate \in {Zero, Half},
            packs \in {<<>>} \cup {<<a>> : a \in As}
                      \cup {<<a, b>> : a \in As, b \in Bs}}

\* MinCostAtLeastTokens or MaxTokensUnderBudget is about to be called
InitPricing ==
    /\ sut = "pricing"
    /\ ps = NewPitySystem(0)
    /\ sp = NilSoftPitySystem
    /\ bn = NewBannerSystem(NilSoftPitySystem, <<>>, 0)
    /\ rngCalls = 0
    /\ rngCalls2 = 0
    /\ \E cat \in Catalogs, amount \in 0..MaxAmount,
          first \in {{}, {"a"}, {"a", "b"}},
          f \in {"MinCostAtLeastTokens", "MaxTokensUnderBudget"} :
          out = [op |-> "pricing.call", f |-> f, cat |-> cat, amount |-> amount,
                 first |-> first]
    /\ missRun = 0
    /\ offRun = 0
    /\ sim = NoSim
    /\ prev = NoPrev
    /\ srv = NoSrv
    /\ ld = NoLd

\* MinCostAtLeastTokens(cat, amount, first) returns its Plan
MinCostCall ==
    /\ sut = "pricing"
    /\ out.op = "pricing.call"
    /\ out.f = "MinCostAtLeastTokens"
    /\ out' = [op |-> out.f, cat |-> out.cat, amount |-> out.amount,
               first |-> out.first,
               plan |-> MinCostAtLeastTokens(out.cat, out.amount, out.first)]
    /\ UNCHANGED <<sut, ps, sp, bn, rngCalls, rngCalls2, missRun, offRun, sim,
                   prev, srv, ld>>

\* MaxTokensUnderBudget(cat, amount, first) returns its Plan
MaxTokensCall ==
    /\ sut = "pricing"
    /\ out.op = "pricing.call"
    /\ out.f = "MaxTokensUnderBudget"
    /\ out' = [op |-> out.f, cat |-> out.cat, amount |-> out.amount,
               first |-> out.first,
               plan |-> MaxTokensUnderBudget(out.cat, out.amount, out.first)]
    /\ UNCHANGED <<sut, ps, sp, bn, rngCalls, rngCalls2, missRun, offRun, sim,
                   prev, srv, ld>>

NextPricing == MinCostCall \/ MaxTokensCall

SpecPricing == InitPricing /\ [][NextPricing]_vars

----------------------------------------------------------------------------
(* Hard pity *)

\* C1: a PitySystem with Pity = N >= 1 that starts at Count 0 never returns N
\* misses in a row, and the draw made after N-1 misses in a row is a hit that
\* asks nothing of the random source and leaves Count at 0, whatever
\* probability it is given.
PityForcesNthDraw ==
    (sut = "PitySystem" /\ ps.Pity >= 1) =>
        /\ missRun < ps.Pity
        /\ (out.op = "PitySystem.Draw" /\ out.preRun = ps.Pity - 1) =>
               (out.hit /\ out.err = NoErr /\ out.used = 0 /\ ps.Count = 0)

\* the tenth-draw case of TestPitySystem: Pity-1 misses at p = 0, then a hit
\* at p = 0
PityForcedHitSeen ==
    /\ out.op = "PitySystem.Draw"
    /\ ps.Pity >= 2
    /\ out.preRun = ps.Pity - 1
    /\ out.p = Zero
    /\ out.hit
    /\ ps.Count = 0

\* C2: between draws, a PitySystem and a SoftPitySystem with a positive
\* threshold have 0 <= Count < Pity, also when Count was seeded from the
\* simulator's cushion.
CountBelowPity ==
    /\ (sut = "PitySystem" /\ ps.Pity >= 1) => (0 <= ps.Count /\ ps.Count < ps.Pity)
    /\ (sut = "SoftPitySystem" /\ sp.Pity >= 1) =>
           (0 <= sp.Count /\ sp.Count < sp.Pity)

\* a system seeded from a cushion (Count > 0 before any miss was returned)
\* whose first draw is a miss that takes Count to Pity-1
SeededCountAtLastStep ==
    /\ out.op = "SoftPitySystem.Draw"
    /\ out.preRun = 0
    /\ out.pre.Count > 0
    /\ ~out.hit
    /\ out.err = NoErr
    /\ sp.Count = sp.Pity - 1

----------------------------------------------------------------------------
(* Banner guarantee *)

\* C3: a BannerSystem never resolves MaxOff+2 hits in a row off-banner: the
\* hit that follows MaxOff+1 off-banner hits is UP, whatever the off
\* probabilities and the random source.
GuaranteeAfterMaxOffPlusOne ==
    sut = "BannerSystem" =>
        /\ bn.MaxOff >= 1
        /\ offRun <= bn.MaxOff + 1
        /\ (out.op = "BannerSystem.Draw" /\ out.err = NoErr /\ out.o.Hit
              /\ out.preRun = bn.MaxOff + 1) => out.o.IsUp

\* a hit after MaxOff+1 off-banner hits in a row, resolved UP
GuaranteedUpSeen ==
    /\ out.op = "BannerSystem.Draw"
    /\ out.preRun = bn.MaxOff + 1
    /\ out.o.Hit
    /\ out.o.IsUp
    /\ offRun = 0

\* C4: a hit that BannerSystem.Draw resolves off-banner adds exactly one to
\* OffStreak and leaves GuaranteedNext true exactly when the new OffStreak is
\* greater than MaxOff; the hit after which the flag is set is off-banner.
OffHitCountsAndFlips ==
    (out.op = "BannerSystem.Draw" /\ out.err = NoErr /\ out.o.Hit) =>
        /\ ~out.o.IsUp =>
              /\ bn.OffStreak = out.pre.OffStreak + 1
              /\ bn.GuaranteedNext <=> (bn.OffStreak > bn.MaxOff)
        /\ bn.GuaranteedNext => ~out.o.IsUp

\* an off-banner hit at OffStreak = MaxOff, where the flag was still clear,
\* that takes OffStreak to MaxOff+1 and sets the flag
FlagSetAboveMaxOff ==
    /\ out.op = "BannerSystem.Draw"
    /\ out.o.Hit
    /\ ~out.o.IsUp
    /\ out.pre.OffStreak = bn.MaxOff
    /\ ~out.pre.GuaranteedNext
    /\ bn.OffStreak = bn.MaxOff + 1
    /\ bn.GuaranteedNext

\* C5: a draw made while GuaranteedNext is set leaves the flag and OffStreak
\* as they are unless it is a hit; that hit is UP and leaves the flag clear
\* and OffStreak at 0; the flag is never set after a hit resolved UP.
GuaranteeHeldUntilHit ==
    out.op = "BannerSystem.Draw" =>
        /\ out.pre.GuaranteedNext =>
              IF out.err = NoErr /\ out.o.Hit
              THEN out.o.IsUp /\ ~bn.GuaranteedNext /\ bn.OffStreak = 0
              ELSE bn.GuaranteedNext /\ bn.OffStreak = out.pre.OffStreak
        /\ (out.err = NoErr /\ out.o.Hit /\ out.o.IsUp) => ~bn.GuaranteedNext

\* the flag was set, stayed set over at least one miss, and was then consumed
\* by a hit resolved UP
GuaranteeConsumedAfterMiss ==
    /\ out.op = "BannerSystem.Draw"
    /\ out.pre.GuaranteedNext
    /\ out.preMiss >= 1
    /\ out.o.Hit
    /\ out.o.IsUp
    /\ ~bn.GuaranteedNext

----------------------------------------------------------------------------
(* Draw *)

\* C6 as stated: for p <= 0 Draw returns false, for p >= 1 it returns true,
\* and neither asks the random source.
DrawExtremesAsStated ==
    out.op = "Draw" =>
        /\ Le(out.p, Zero) => (~out.hit /\ out.used = 0)
        /\ Ge(out.p, One) => (out.hit /\ out.used = 0)

\* C6, amended: for p <= 0 Draw returns false, for p = 1 it returns true
\* without error, for p > 1 it fails with ErrInvalidProb and hit = false; in
\* none of these cases does it ask the random source.
DrawExtremes ==
    out.op = "Draw" =>
        /\ Le(out.p, Zero) => (~out.hit /\ out.used = 0)
        /\ out.p = One => (out.hit /\ out.err = NoErr /\ out.used = 0)
        /\ Gt(out.p, One) =>
               (~out.hit /\ out.err = ErrInvalidProb /\ out.used = 0)

\* Draw(1, rng) returned true and the source was not asked
DrawAtOneSeen ==
    /\ out.op = "Draw"
    /\ out.p = One
    /\ out.hit
    /\ out.err = NoErr
    /\ rngCalls = 0

\* C7: Draw with p < 0 or p > 1 returns ErrInvalidProb with hit = false and
\* does not ask the random source.
DrawRejectsOutside ==
    (out.op = "Draw" /\ (Lt(out.p, Zero) \/ Gt(out.p, One))) =>
        (out.err = ErrInvalidProb /\ ~out.hit /\ out.used = 0)

\* a finite probability above 1 was rejected
DrawRejectedAboveOne ==
    /\ out.op = "Draw"
    /\ out.p = R(DrawDen + 1, DrawDen)
    /\ out.err = ErrInvalidProb
    /\ rngCalls = 0

\* C8: Draw with 0 < p < 1 asks the random source exactly once and returns
\* hit exactly when the value u it got is below p.
DrawComparesOnce ==
    (out.op = "Draw" /\ Lt(Zero, out.p) /\ Lt(out.p, One)) =>
        /\ out.err = NoErr
        /\ out.used = 1
        /\ out.hit <=> Lt(out.u, out.p)

\* the boundary u = p, a miss
DrawAtBoundarySeen ==
    /\ out.op = "Draw"
    /\ out.p = Half
    /\ out.u = Half
    /\ ~out.hit
    /\ out.used = 1

----------------------------------------------------------------------------
(* Invalid probabilities at the engines *)

\* C9 as stated: a draw on a PitySystem, SoftPitySystem or BannerSystem with
\* a base probability outside [0,1] returns ErrInvalidProb, in every state of
\* the engine.
EnginesRejectOutside ==
    (out.op \in {"PitySystem.Draw", "SoftPitySystem.Draw", "BannerSystem.Draw"}
       /\ (Lt(out.p, Zero) \/ Gt(out.p, One))) =>
        out.err = ErrInvalidProb

----------------------------------------------------------------------------
(* SoftPitySystem without a ramp against PitySystem *)

\* C10 as stated: a SoftPitySystem built without a ramp and a PitySystem with
\* the same threshold, given the same probabilities and the same random
\* stream, return the same hit and error and have the same Count after every
\* draw, for every threshold including Pity <= 0.
NoRampSameAsPity ==
    out.op = "pair" =>
        (out.pity = out.soft /\ ps.Count = sp.Count /\ rngCalls = rngCalls2)


----------------------------------------------------------------------------
(* PitySystem with pity disabled *)

\* C11: a draw on a PitySystem with Pity <= 0 returns the hit and the error
\* plain Draw returns for the same probability and the same value of the
\* source, asks the source as often as Draw does, forces no hit, and leaves
\* Count as it was.
PityDisabledIsPlainDraw ==
    (out.op = "PitySystem.Draw" /\ out.pre.Pity <= 0) =>
        /\ [hit |-> out.hit, err |-> out.err, used |-> out.used]
               = Draw(out.p, out.u)
        /\ out.hit => (out.p = One \/ (out.used = 1 /\ Lt(out.u, out.p)))
        /\ ps = out.pre

\* with Pity = 0, a miss drawn from the source after two misses in a row: no
\* hit was forced and Count is still 0
PityDisabledMissSeen ==
    /\ out.op = "PitySystem.Draw"
    /\ out.pre.Pity = 0
    /\ out.preRun >= 2
    /\ ~out.hit
    /\ out.err = NoErr
    /\ out.used = 1
    /\ ps.Count = 0

----------------------------------------------------------------------------
(* Validation of the ramp configuration *)

\* C12 as stated: NewSoftPitySystem given a ramp configuration returns
\* ErrSoftPityConfig unless pity > 1, 0 <= StartAt <= pity-2 and
\* 0 < TargetProb < 1 hold of the configuration as it was passed.
NewSoftRejectsInvalid ==
    (out.op = "NewSoftPitySystem" /\ out.soft.set) =>
        (~(/\ out.pity > 1
           /\ 0 <= out.soft.StartAt
           /\ out.soft.StartAt <= out.pity - 2
           /\ Gt(out.soft.TargetProb, Zero)
           /\ Lt(out.soft.TargetProb, One))
            => out.err = ErrSoftPityConfig)

----------------------------------------------------------------------------
(* The ramp of effectiveProb *)

\* C13 as stated: for an accepted ramp, every base probability in [0,1] and
\* StartAt <= c < c2 <= Pity-1, effectiveProb at Count = c is at most
\* effectiveProb at Count = c2.
RampMonotoneAsStated ==
    (/\ out.op = "effectiveProb"
     /\ Ge(out.p, Zero) /\ Le(out.p, One)
     /\ sp.Soft.StartAt <= out.c /\ out.c < out.c2) =>
        Le(out.lo, out.hi)

\* C13, amended: for an accepted ramp, every base probability in [0,1] that
\* is at most TargetProb and StartAt <= c < c2 <= Pity-1, effectiveProb at
\* Count = c is at most effectiveProb at Count = c2, for each easing.
RampMonotoneUpToTarget ==
    (/\ out.op = "effectiveProb"
     /\ Ge(out.p, Zero) /\ Le(out.p, One)
     /\ Le(out.p, sp.Soft.TargetProb)
     /\ sp.Soft.StartAt <= out.c /\ out.c < out.c2) =>
        Le(out.lo, out.hi)

\* a base probability strictly between 0 and the target, raised strictly
\* between the start of the ramp and the next draw, which is not yet the
\* hard-pity draw
RampRisesSeen ==
    /\ out.op = "effectiveProb"
    /\ Gt(out.p, Zero)
    /\ Lt(out.p, sp.Soft.TargetProb)
    /\ out.c = sp.Soft.StartAt
    /\ out.c2 = out.c + 1
    /\ out.c2 + 1 < sp.Pity
    /\ out.lo = out.p
    /\ Lt(out.lo, out.hi)
    /\ Lt(out.hi, sp.Soft.TargetProb)

\* C14: on a draw of a ramped SoftPitySystem that is not the hard-pity draw
\* (Count+1 < Pity) with Count >= StartAt, the probability handed to Draw is
\* below 1 whenever it is a number, whatever the base probability, and the
\* draw is a hit only if the source was asked and returned a value below it.
RampNeverCertain ==
    (/\ out.op = "SoftPitySystem.Draw"
     /\ out.pre.Soft.set
     /\ out.pre.Count + 1 < out.pre.Pity
     /\ out.pre.Count >= out.pre.Soft.StartAt) =>
        /\ out.eff.k = "nan" \/ Lt(out.eff, One)
        /\ out.hit => (out.used = 1 /\ Lt(out.u, out.eff))

\* inside the ramp the base probability 1 was handed to Draw as
\* 0.999999999999, and the draw missed on the largest value of the source
RampMissAtBaseOneSeen ==
    /\ out.op = "SoftPitySystem.Draw"
    /\ out.pre.Soft.set
    /\ out.pre.Count + 1 < out.pre.Pity
    /\ out.pre.Count >= out.pre.Soft.StartAt
    /\ out.p = One
    /\ out.eff = ProbCap
    /\ out.u = UMax
    /\ ~out.hit
    /\ out.err = NoErr

----------------------------------------------------------------------------
(* BannerSystem: misses and guaranteed hits *)

\* C15: when the SoftPitySystem draw inside BannerSystem.Draw is a miss,
\* OffStreak and GuaranteedNext stay as they were, the source is asked at
\* most once (by the hit draw, never for an off/UP decision), and the outcome
\* reports Hit = false and IsUp = false with the unchanged fields.
MissLeavesBannerState ==
    (out.op = "BannerSystem.Draw" /\ out.err = NoErr /\ ~out.o.Hit) =>
        /\ bn.OffStreak = out.pre.OffStreak
        /\ bn.GuaranteedNext = out.pre.GuaranteedNext
        /\ bn.MaxOff = out.pre.MaxOff
        /\ bn.OffProbs = out.pre.OffProbs
        /\ out.used =
              IF Gt(effectiveProb(out.pre.SoftPity, out.p), Zero) THEN 1 ELSE 0
        /\ ~out.o.IsUp
        /\ out.o.OffStreak = out.pre.OffStreak
        /\ out.o.GuaranteedNext = out.pre.GuaranteedNext

\* a miss drawn from the source in the middle of a run of off-banner hits
MissInsideOffRunSeen ==
    /\ out.op = "BannerSystem.Draw"
    /\ out.err = NoErr
    /\ ~out.o.Hit
    /\ out.used = 1
    /\ out.pre.OffStreak >= 1
    /\ bn.OffStreak = out.pre.OffStreak
    /\ offRun >= 1

\* C16: a hit of BannerSystem.Draw taken while GuaranteedNext is set is UP,
\* leaves GuaranteedNext clear and OffStreak at 0, and asks the source at
\* most once (for the hit draw, not for the off/UP decision).
GuaranteedHitIsUpUnasked ==
    (/\ out.op = "BannerSystem.Draw"
     /\ out.err = NoErr
     /\ out.o.Hit
     /\ out.pre.GuaranteedNext) =>
        /\ out.o.IsUp
        /\ ~bn.GuaranteedNext
        /\ bn.OffStreak = 0
        /\ out.used <= 1
        /\ out.used = 1 =>
              Lt(Zero, effectiveProb(out.pre.SoftPity, out.p))
        /\ ~out.o.GuaranteedNext
        /\ out.o.OffStreak = 0

\* a hit drawn from the source while the guarantee was set: UP, and that one
\* value was all the call asked for
GuaranteedRandomHitSeen ==
    /\ out.op = "BannerSystem.Draw"
    /\ out.pre.GuaranteedNext
    /\ out.pre.OffStreak > out.pre.MaxOff
    /\ out.o.Hit
    /\ out.o.IsUp
    /\ out.used = 1
    /\ bn.OffStreak = 0

----------------------------------------------------------------------------
(* RunMonteCarlo: trial count and construction errors *)

\* C17: RunMonteCarlo called with trials <= 0 returns the zero Stats and no
\* error, and has built no engine and made no draw, also for parameters that
\* newSoft rejects.
NoTrialsNoWork ==
    (sut = "RunMonteCarlo" /\ sim.pc # "call" /\ sim.trials <= 0) =>
        /\ sim.pc = "done"
        /\ sim.stats = NoStats
        /\ sim.err = NoErr
        /\ sim.built = 0
        /\ sim.drawn = 0
        /\ rngCalls = 0
        /\ sp = NilSoftPitySystem

\* a run with a negative trial count and parameters that newSoft rejects has
\* returned
NoTrialsBadParamsSeen ==
    /\ sut = "RunMonteCarlo"
    /\ sim.pc = "done"
    /\ sim.trials < 0
    /\ newSoft(sim.p).err = ErrSoftPityConfig
    /\ sim.err = NoErr
    /\ sim.stats = NoStats

\* C18: when newSoft rejects the parameters, RunMonteCarlo with trials > 0
\* returns ErrSoftPityConfig and the zero Stats from its first trial: no
\* sample is stored or returned, no engine was built, no draw was made.
BadParamsAbortRun ==
    (/\ sut = "RunMonteCarlo"
     /\ sim.trials > 0
     /\ newSoft(sim.p).err # NoErr) =>
        /\ sim.i = 0
        /\ sim.built = 0
        /\ sim.drawn = 0
        /\ sim.pc \in {"call", "trial", "done"}
        /\ sim.pc = "done" =>
              /\ sim.err = ErrSoftPityConfig
              /\ sim.stats = NoStats
              /\ sim.stats.Samples = <<>>

\* a run of several trials with a ramp target of 1 has returned the
\* construction error
BadParamsAbortSeen ==
    /\ sut = "RunMonteCarlo"
    /\ sim.pc = "done"
    /\ sim.trials > 1
    /\ sim.p.TargetProb = Some(One)
    /\ sim.p.Pity > 1
    /\ sim.err = ErrSoftPityConfig
    /\ sim.i = 0

----------------------------------------------------------------------------
(* The trials of the simulator *)

\* C19 as stated: whenever newSoft accepts the SimParams, a trial starts with
\* Count equal to the cushion clamped into [0, Pity-1], so 0 <= Count < Pity.
SeedInClampedRange ==
    (/\ sut = "RunMonteCarlo"
     /\ sim.built >= 1
     /\ sim.draws = 0
     /\ sim.err = NoErr) =>
        /\ sp.Count = IF sim.p.Cushion < 0 THEN 0
                      ELSE IF sim.p.Cushion >= sim.p.Pity THEN sim.p.Pity - 1
                      ELSE sim.p.Cushion
        /\ 0 <= sp.Count
        /\ sp.Count < sp.Pity

\* C20: in a first_hit run with Pity >= 1 and a base probability in [0,1],
\* a trial makes at most Pity - c draws, c the clamped cushion, and the sample
\* it records is the number of its draws, the last of which was the hit; so
\* every sample lies in [1, Pity - c]. A trial fails only on a ramp whose
\* target is NaN.
FirstHitSampleBounded ==
    LET Holds(c) ==
            /\ sim.draws <= sim.p.Pity - c
            /\ \A k \in 1..sim.i :
                  1 <= sim.samples[k] /\ sim.samples[k] <= sim.p.Pity - c
            /\ (sim.i >= 1 /\ sim.pc \in {"trial", "done"} /\ sim.err = NoErr) =>
                  (sim.samples[sim.i] = sim.draws /\ sp.Count = 0)
            /\ (sim.err # NoErr /\ sim.built >= 1) =>
                  sim.p.TargetProb = Some(NaN)
    IN  (/\ sut = "RunMonteCarlo"
         /\ sim.goal = GoalFirstHit
         /\ sim.p.Pity >= 1
         /\ Ge(sim.p.PBase, Zero) /\ Le(sim.p.PBase, One)) =>
            Holds(IF sim.p.Cushion < 0 THEN 0
                  ELSE IF sim.p.Cushion >= sim.p.Pity THEN sim.p.Pity - 1
                  ELSE sim.p.Cushion)

\* a first_hit trial that started from a cushion, missed, and ended on the
\* hard-pity draw: its sample is Pity - c
FirstHitAtHardPitySeen ==
    /\ sut = "RunMonteCarlo"
    /\ sim.goal = GoalFirstHit
    /\ sim.pc = "done"
    /\ sim.err = NoErr
    /\ sim.p.Cushion = 0
    /\ sim.p.Pity = MaxSimPity
    /\ sim.p.PBase = Half
    /\ sim.trials = MaxTrials
    /\ sim.samples[sim.trials] = sim.p.Pity
    /\ sim.samples[1] = 1

\* C21: in a first_up run with a banner and Pity >= 1, a trial makes at most
\* (MaxOff + 2) * Pity - c draws, MaxOff the banner's own and c the clamped
\* cushion, whatever the source returns; the sample it records is the number
\* of its draws, the last of which was a hit resolved UP.
FirstUpSampleBounded ==
    LET Holds(most) ==
            /\ sim.draws <= most
            /\ \A k \in 1..sim.i : 1 <= sim.samples[k] /\ sim.samples[k] <= most
            /\ (sim.i >= 1 /\ sim.pc \in {"trial", "done"} /\ sim.err = NoErr) =>
                  /\ sim.samples[sim.i] = sim.draws
                  /\ sp.Count = 0
                  /\ bn.OffStreak = 0
                  /\ ~bn.GuaranteedNext
    IN  (/\ sut = "RunMonteCarlo"
         /\ sim.goal = GoalFirstUP
         /\ sim.banner
         /\ sim.p.Pity >= 1) =>
            Holds((bn.MaxOff + 2) * sim.p.Pity
                  - (IF sim.p.Cushion < 0 THEN 0
                     ELSE IF sim.p.Cushion >= sim.p.Pity THEN sim.p.Pity - 1
                     ELSE sim.p.Cushion))

\* a first_up trial that needed every draw: all hits forced by hard pity,
\* MaxOff+1 of them off-banner, the last one UP
FirstUpWorstCaseSeen ==
    /\ sut = "RunMonteCarlo"
    /\ sim.goal = GoalFirstUP
    /\ sim.banner
    /\ sim.pc = "done"
    /\ sim.err = NoErr
    /\ sim.p.Pity = MaxSimPity
    /\ sim.p.Cushion = 1
    /\ sim.samples[sim.trials] = (bn.MaxOff + 2) * sim.p.Pity - 1

\* C22: without a banner (empty OffProbs) a first_up run is a first_hit run:
\* on the same parameters and the same stream of source values it records,
\* trial by trial, the sample the first_hit run recorded, and it returns the
\* error and the Stats the first_hit run returned.
FirstUpWithoutBannerIsFirstHit ==
    (/\ sut = "RunMonteCarlo"
     /\ prev.mode = "second"
     /\ prev.shared
     /\ prev.goal = GoalFirstHit
     /\ sim.goal = GoalFirstUP
     /\ Len(sim.p.OffProbs) = 0
     /\ sim.pc \in {"trial", "loop", "done"}) =>
        /\ sim.i <= prev.i
        /\ \A k \in 1..sim.i : sim.samples[k] = prev.samples[k]
        /\ sim.pc = "done" =>
              /\ sim.i = prev.i
              /\ sim.err = prev.err
              /\ sim.stats = prev.stats

\* a first_up run without a banner has repeated a first_hit run of two trials
\* on the same stream: a trial that missed and was hit by hard pity, then a
\* trial the source let hit at once
FirstUpReplaySeen ==
    /\ sut = "RunMonteCarlo"
    /\ prev.mode = "second"
    /\ prev.shared
    /\ prev.goal = GoalFirstHit
    /\ sim.goal = GoalFirstUP
    /\ Len(sim.p.OffProbs) = 0
    /\ sim.pc = "done"
    /\ sim.err = NoErr
    /\ rngCalls = 2
    /\ sim.samples = <<2, 1>>

\* C23: a fixed_budget trial with numDraws = N > 0 makes exactly N engine
\* draws, none beyond N, and records the number of hits among them without a
\* banner, or the number of draws that returned Hit and IsUp with a banner;
\* every sample lies in 0..N. (A draw that fails ends the run with its error.)
FixedBudgetCountsDraws ==
    LET Holds(n) ==
            /\ sim.draws <= n
            /\ \A k \in 1..sim.i : 0 <= sim.samples[k] /\ sim.samples[k] <= n
            /\ (sim.i >= 1 /\ sim.pc \in {"trial", "done"} /\ sim.err = NoErr) =>
                  /\ sim.draws = n
                  /\ sim.drawn = sim.i * n
                  /\ sim.samples[sim.i] = IF sim.banner THEN sim.ups ELSE sim.hits
    IN  (/\ sut = "RunMonteCarlo"
         /\ sim.goal = GoalFixedBudget
         /\ sim.budget.set
         /\ sim.pc \in {"trial", "loop", "done"}) =>
            (sim.budget.v > 0 => Holds(sim.budget.v))

\* a fixed_budget run with a banner has finished a trial in which a hit went
\* off-banner: the trial returned more hits than it recorded
FixedBudgetOffHitSeen ==
    /\ sut = "RunMonteCarlo"
    /\ sim.goal = GoalFixedBudget
    /\ sim.budget = Some(MaxBudget)
    /\ sim.banner
    /\ sim.pc = "done"
    /\ sim.err = NoErr
    /\ sim.draws = MaxBudget
    /\ sim.hits > sim.ups
    /\ sim.samples[sim.i] = sim.ups
    /\ rngCalls > 0

\* C24: fixed_budget requires a positive budget: a RunMonteCarlo call with goal
\* fixed_budget, at least one trial and a missing budget or numDraws <= 0
\* returns an error, and no samples and statistics.
FixedBudgetNeedsBudget ==
    (/\ sut = "RunMonteCarlo"
     /\ sim.goal = GoalFixedBudget
     /\ ~sim.budget.set \/ sim.budget.v <= 0
     /\ sim.trials > 0
     /\ sim.pc = "done") =>
        /\ sim.err # NoErr
        /\ sim.stats = NoStats

\* C25: the trials of a RunMonteCarlo run share no engine state and the run
\* leaves its SimParams alone: no step changes the SimParams value, and every
\* trial, the first as well as the later ones, makes its first draw on freshly
\* built engines: the miss-streak is the clamped cushion (Pity - 1 for
\* Pity <= 0, see C19), offStreak is 0 and guaranteedNext is false, whatever
\* state the trial before ended in.
TrialsShareNothing ==
    [][LET Seed(p) ==
               IF p.Pity <= 0 \/ p.Cushion >= p.Pity THEN p.Pity - 1
               ELSE IF p.Cushion < 0 THEN 0
               ELSE p.Cushion
           FreshEngines(s, e, b) ==
               /\ e.Pity = s.p.Pity
               /\ e.Count = Seed(s.p)
               /\ s.banner =>
                     /\ b.SoftPity = e
                     /\ b.OffStreak = 0
                     /\ ~b.GuaranteedNext
           Step(s, e, b) ==
               /\ s.p = sim.p
               /\ (s.pc = "loop" /\ s.draws = 0) => FreshEngines(s, e, b)
       IN  sut = "RunMonteCarlo" => Step(sim', sp', bn')]_vars

\* the second trial of a fixed_budget run is about to make its first draw on
\* fresh engines, after a first trial whose hit by hard pity went off-banner
SecondTrialFreshSeen ==
    /\ sut = "RunMonteCarlo"
    /\ sim.goal = GoalFixedBudget
    /\ sim.banner
    /\ sim.pc = "loop"
    /\ sim.draws = 0
    /\ sim.i = 1
    /\ sim.samples[1] = 0
    /\ sim.p.Pity = 2
    /\ sim.p.Cushion = 1
    /\ sp.Count = 1
    /\ bn.OffStreak = 0

\* C26: a second RunMonteCarlo run with the same SimParams, goal, trial count
\* and budget as the first returns the samples and the Stats the first run
\* returned.
TwoRunsSameStats ==
    (/\ sut = "RunMonteCarlo"
     /\ prev.mode = "second"
     /\ ~prev.shared
     /\ prev.goal = sim.goal
     /\ sim.pc = "done") =>
        /\ sim.samples = prev.samples
        /\ sim.stats = prev.stats

\* C27: the shared engines are read and advanced only under the handlers'
\* mutex: a request between its Lock and the end of its handler holds the
\* mutex, no request touches the engines between two steps of another
\* request's batch, and no handler ends with the mutex still locked, so a
\* request that waits for the mutex is not blocked forever.
MutexGuardsEngines ==
    sut = "http" =>
        /\ ~srv.torn
        /\ \A r \in Reqs :
              /\ srv.pc[r] \in {"prepare", "draw", "respond"} => srv.mu = r
              /\ srv.pc[r] \in {"idle", "lock", "done", "panicked"} => srv.mu # r


\* C28: MaxOff is the number of off-banner hits in a row a BannerSystem
\* allows: the guarantee is set as soon as OffStreak >= MaxOff, and no run of
\* off-banner hits is longer than MaxOff.
GuaranteeAtMaxOff ==
    sut = "BannerSystem" =>
        /\ bn.OffStreak >= bn.MaxOff => bn.GuaranteedNext
        /\ offRun <= bn.MaxOff

\* C29: the ramp of a SoftPitySystem reaches its target before the hard cap:
\* the last draw the source decides, the one at Count = Pity - 2, is drawn
\* with the probability TargetProb.
RampReachesTarget ==
    (/\ out.op = "SoftPitySystem.Draw"
     /\ out.pre.Soft.set
     /\ out.pre.Count = out.pre.Pity - 2
     /\ out.err = NoErr
     /\ Ge(out.p, Zero) /\ Le(out.p, One)) =>
        out.eff = out.pre.Soft.TargetProb

\* C30: in every state BannerSystem.Draw calls reach from a new BannerSystem,
\* 0 <= OffStreak <= MaxOff + 1, and GuaranteedNext is set exactly when
\* OffStreak = MaxOff + 1.
StreakBoundsGuarantee ==
    sut = "BannerSystem" =>
        /\ 0 <= bn.OffStreak
        /\ bn.OffStreak <= bn.MaxOff + 1
        /\ bn.GuaranteedNext <=> bn.OffStreak = bn.MaxOff + 1

\* MaxMaxOff + 1 off-banner hits in a row have set the guarantee of a
\* BannerSystem with the largest MaxOff, and a miss has followed
StreakAtLimitSeen ==
    /\ sut = "BannerSystem"
    /\ bn.MaxOff = MaxMaxOff
    /\ bn.OffStreak = MaxMaxOff + 1
    /\ bn.GuaranteedNext
    /\ offRun = MaxMaxOff + 1
    /\ out.op = "BannerSystem.Draw"
    /\ out.err = NoErr
    /\ ~out.o.Hit
    /\ out.pre.GuaranteedNext

\* C31: a draw on a PitySystem, a SoftPitySystem or a BannerSystem that
\* returns an error leaves the engine as it was before the call (miss-streak,
\* OffStreak, GuaranteedNext) and has asked nothing of the random source.
FailedDrawChangesNothing ==
    (out.op \in {"PitySystem.Draw", "SoftPitySystem.Draw", "BannerSystem.Draw"}
     /\ out.err # NoErr) =>
        /\ out.used = 0
        /\ ~out.hit
        /\ out.op = "PitySystem.Draw" => ps = out.pre
        /\ out.op = "SoftPitySystem.Draw" => sp = out.pre
        /\ out.op = "BannerSystem.Draw" => bn = out.pre

\* a BannerSystem in the middle of a run of off-banner hits was given an
\* invalid probability
FailedBannerDrawSeen ==
    /\ out.op = "BannerSystem.Draw"
    /\ out.err = ErrInvalidProb
    /\ out.pre.OffStreak > 0
    /\ bn = out.pre
    /\ rngCalls > 0

\* C32: the outcome a successful BannerSystem.Draw returns is a snapshot of
\* the engine after the call: its Count, GuaranteedNext and OffStreak are the
\* engine's; IsUp implies Hit, and Hit implies Count = 0.
OutcomeIsPostState ==
    (out.op = "BannerSystem.Draw" /\ out.err = NoErr) =>
        /\ out.o.Count = bn.SoftPity.Count
        /\ out.o.GuaranteedNext = bn.GuaranteedNext
        /\ out.o.OffStreak = bn.OffStreak
        /\ out.o.IsUp => out.o.Hit
        /\ out.o.Hit => out.o.Count = 0

\* an off-banner hit that set the guarantee, after misses: the outcome shows
\* the new OffStreak and the flag, which differ from those before the call
OutcomeOfFlippingHitSeen ==
    /\ out.op = "BannerSystem.Draw"
    /\ out.err = NoErr
    /\ out.o.Hit
    /\ ~out.o.IsUp
    /\ out.pre.SoftPity.Count > 0
    /\ ~out.pre.GuaranteedNext
    /\ out.o.GuaranteedNext
    /\ out.o.OffStreak = out.pre.OffStreak + 1

\* C33: after NewBannerSystem, whatever the arguments, OffProbs is not empty
\* and every element is strictly inside (0,1): an empty list becomes [0.5],
\* an entry outside (0,1) becomes 0.5 and the others are kept in order;
\* MaxOff >= 1 (maxOff <= 0 gives the length of the list); the caller's slice
\* is as it was.
NewBannerSystemClamps ==
    out.op = "NewBannerSystem" =>
        LET Inside(p) == Gt(p, Zero) /\ Lt(p, One)
        IN  /\ Len(bn.OffProbs) >= 1
            /\ \A i \in 1..Len(bn.OffProbs) : Inside(bn.OffProbs[i])
            /\ Len(out.probs) = 0 => bn.OffProbs = <<Half>>
            /\ Len(out.probs) > 0 =>
                  /\ Len(bn.OffProbs) = Len(out.probs)
                  /\ \A i \in 1..Len(out.probs) :
                        bn.OffProbs[i] = IF Inside(out.probs[i])
                                         THEN out.probs[i] ELSE Half
            /\ bn.MaxOff >= 1
            /\ out.maxOff > 0 => bn.MaxOff = out.maxOff
            /\ out.maxOff <= 0 => bn.MaxOff = Len(bn.OffProbs)
            /\ out.slice = out.probs
            /\ ~bn.GuaranteedNext
            /\ bn.OffStreak = 0

\* a list with an entry of exactly 1 before a valid entry other than 0.5, and
\* a negative maxOff
NewBannerSystemMixedSeen ==
    /\ out.op = "NewBannerSystem"
    /\ Len(out.probs) = 2
    /\ out.probs[1] = One
    /\ out.probs[2] \notin {Half, One, Zero}
    /\ out.probs[2].k = "fin" /\ out.probs[2].n > 0 /\ out.probs[2].n < out.probs[2].d
    /\ out.maxOff < 0
    /\ bn.OffProbs = <<Half, out.probs[2]>>
    /\ bn.MaxOff = 2

\* C34: for a non-empty sample set every percentile of calcStats is the linear
\* interpolation between the sorted samples around position q*(n-1), so
\* min <= P50 <= P90 <= P99 <= max; for one sample or all-equal samples every
\* percentile is that value and the variance is 0.
PercentilesInterpolate ==
    (out.op = "calcStats" /\ Len(out.xs) > 0) =>
        LET xs == out.xs
            n == Len(xs)
            st == out.stats
            cp == SortInts(xs)
            lo == CHOOSE x \in {xs[i] : i \in 1..n} : \A j \in 1..n : x <= xs[j]
            hi == CHOOSE x \in {xs[i] : i \in 1..n} : \A j \in 1..n : x >= xs[j]
            \* q in hundredths: q * (n-1) = 100 * i + r
            Lerp(q) ==
                LET i == (q * (n - 1)) \div 100
                    r == (q * (n - 1)) % 100
                IN  IF n = 1 THEN R(cp[1], 1)
                    ELSE R(cp[i + 1] * (100 - r) + cp[i + 2] * r, 100)
        IN  /\ st.P50 = Lerp(50)
            /\ st.P90 = Lerp(90)
            /\ st.P99 = Lerp(99)
            /\ Le(R(lo, 1), st.P50)
            /\ Le(st.P50, st.P90)
            /\ Le(st.P90, st.P99)
            /\ Le(st.P99, R(hi, 1))
            /\ lo = hi =>
                  /\ st.P50 = R(lo, 1)
                  /\ st.P90 = R(lo, 1)
                  /\ st.P99 = R(lo, 1)
                  /\ st.Var = Zero
            /\ st.Samples = xs

\* unsorted samples whose percentiles are three different values, none of
\* them a sample
PercentilesBetweenSeen ==
    /\ out.op = "calcStats"
    /\ Len(out.xs) >= 3
    /\ out.xs # SortInts(out.xs)
    /\ Lt(out.stats.P50, out.stats.P90)
    /\ Lt(out.stats.P90, out.stats.P99)
    /\ out.stats.P50.d > 1
    /\ out.stats.P90.d > 1
    /\ out.stats.P99.d > 1

\* C35: a request that carries the same pity, start, start_pct, target and
\* easing as the request that built the shared SoftPitySystem gets that
\* engine, miss-streak included; ensureSoftPity replaces the engine only for
\* a request that differs in one of them.
SameParametersReuse ==
    [][\A r \in Reqs :
          LET Same(a, b) ==
                  /\ a.pity = b.pity
                  /\ a.start = b.start
                  /\ a.startPct = b.startPct
                  /\ a.target = b.target
                  /\ a.easing = b.easing
          IN  (/\ sut = "http"
               /\ srv.pc[r] = "prepare"
               /\ srv'.pc[r] # "prepare"
               /\ sp # NilSoftPitySystem
               /\ Same(srv.q[r], srv.src))
              => sp' = sp]_vars

\* C37: mergeRaw(a, b) gives b precedence: every field that b sets (non-nil,
\* non-empty or non-zero), among them draw.p_base, draw.pity and the soft-pity
\* start_at, start_pct, target and increment, has b's value in the merged
\* configuration.
MergeGivesSecondPrecedence ==
    out.op = "mergeRaw" =>
        LET b == out.b
            m == out.merged
            Kept(x, y) == x.set => y = x
            SoftKept(s, t) ==
                /\ s.Mode # "" => t.Mode = s.Mode
                /\ Kept(s.StartAt, t.StartAt)
                /\ Kept(s.StartPct, t.StartPct)
                /\ Kept(s.Target, t.Target)
                /\ Kept(s.Increment, t.Increment)
                /\ s.Easing # "" => t.Easing = s.Easing
        IN  /\ b.Version # "" => m.Version = b.Version
            /\ b.Notes # "" => m.Notes = b.Notes
            /\ Kept(b.Draw.PBase, m.Draw.PBase)
            /\ Kept(b.Draw.Pity, m.Draw.Pity)
            /\ b.Draw.Soft.set =>
                  /\ m.Draw.Soft.set
                  /\ SoftKept(b.Draw.Soft.v, m.Draw.Soft.v)
            /\ b.Banner.set =>
                  /\ m.Banner.set
                  /\ Len(b.Banner.v.OffProbs) > 0 =>
                        m.Banner.v.OffProbs = b.Banner.v.OffProbs
                  /\ b.Banner.v.MaxOff # 0 => m.Banner.v.MaxOff = b.Banner.v.MaxOff
            /\ b.Tokens.set =>
                  /\ m.Tokens.set
                  /\ Kept(b.Tokens.v.PerDraw, m.Tokens.v.PerDraw)
                  /\ Kept(b.Tokens.v.PerTenDraw, m.Tokens.v.PerTenDraw)

\* C36: however LoadMerged and Invalidate calls interleave, once Invalidate
\* has returned after a file changed, a LoadMerged(game, pool) called later
\* returns no configuration read from disk before that change: every file it
\* is merged from is at least as new as when Invalidate returned.
NoStaleConfigAfterInvalidate ==
    sut = "Loader" =>
        \A c \in Loads :
           (/\ ld.calls[c].pc = "done"
            /\ ld.calls[c].pool # ""
            /\ ld.calls[c].err = NoErr) =>
               \A f \in Files : ld.calls[c].ret.from[f] >= ld.calls[c].floor[f]

\* C38: what ValidateRaw accepts the engine accepts: for a RawConfig without
\* validation errors, with soft mode target_ramp, a pity and a start_at,
\* NewSoftPitySystem on that pity, start_at and target returns no error.
ValidatedConfigBuilds ==
    (out.op = "ValidateRaw" /\ out.errs = <<>> /\ out.built) => out.err = NoErr

\* C40: with PerTenDraw > 0, N <= 1 and n >= 10, TokensForDraws(n) is
\* floor(n/10) * PerTenDraw + (n mod 10) * PerDraw: each full ten draws at
\* the ten-draw price, the rest at the single-draw price.
TenDrawPriceCharged ==
    (/\ out.op = "TokensForDraws"
     /\ out.t.PerTenDraw > 0
     /\ out.t.N <= 1
     /\ out.n >= 10)
    => out.tokens = (out.n \div 10) * out.t.PerTenDraw + (out.n % 10) * out.t.PerDraw

\* C39: in a Plan of MinCostAtLeastTokens or MaxTokensUnderBudget the
\* first-time x2 variant of a pack (PackID "<id>#x2") is bought at most once.
FirstTimeVariantOnce ==
    out.op \in {"MinCostAtLeastTokens", "MaxTokensUnderBudget"} =>
        \A line \in out.plan.Purchases :
           line.PackID \in {out.cat.Packs[i].ID \o "#x2" :
                               i \in 1..Len(out.cat.Packs)}
           => line.Qty <= 1

====
